---- MODULE Spec2Model ----
(***************************************************************************)
(* Credit approval system: the loan decision core.                         *)
(*                                                                         *)
(*   apps/core/utils.py      calculate_emi, round_to_nearest_lakh          *)
(*   apps/loans/services.py  CreditScoreService.calculate,                 *)
(*                           EligibilityService.check,                     *)
(*                           LoanService.create_loan                       *)
(*   apps/loans/views.py     CreateLoanView.post,                          *)
(*                           CheckEligibilityView.post                     *)
(*   apps/loans/serializers.py, apps/customers/serializers.py              *)
(*   apps/customers          RegisterCustomerView.post,                    *)
(*                           CustomerService.register                      *)
(*   apps/core/middleware.py APIKeyMiddleware                              *)
(*                                                                         *)
(* Specifications: Spec and FairSpec (create_loan, two workers),           *)
(* PreviewSpec (check-eligibility), ScoreSpec (the credit score),          *)
(* RequestSpec (requests before validation), RegisterSpec (registration),  *)
(* GateSpec (the API-key middleware).                                      *)
(*                                                                         *)
(* Money is counted in hundredths of a currency unit (a Decimal with two   *)
(* places), interest rates in hundredths of a percent.  monthly_salary and *)
(* approved_limit are whole currency units, as the Customer model stores   *)
(* them.  The database is PostgreSQL at READ COMMITTED: a transaction's    *)
(* writes stay private until it commits, each statement reads the          *)
(* committed rows plus the transaction's own writes, and                   *)
(* SELECT ... FOR UPDATE takes an exclusive lock on the selected row that  *)
(* is held until the transaction ends.                                     *)
(***************************************************************************)
EXTENDS Integers, Sequences, FiniteSets, TLC

VARIABLES
    customers,    \* committed rows of table customers: id -> row
    loans,        \* committed rows of table loans (a set of records)
    nextLoanId,   \* the loans_id_seq sequence
    rowLock,      \* customer id -> set holding the process that locked the row
    pc,           \* process -> position inside CreateLoanView.post / create_loan
    req,          \* process -> the request being served
    customer,     \* process -> the Customer instance fetched by select_for_update
    eligibility,  \* process -> the dict returned by EligibilityService.check
    txLoans,      \* process -> loans inserted by its open transaction
    txDebt,       \* process -> current_debt written by its open transaction
    outcome,      \* process -> what the caller of a finished call received
    calls,        \* number of create_loan calls started so far
    initial,      \* the database (and, in GateSpec, settings.API_KEYS) at the start
    score         \* process -> the score step 1 of its check computed

vars == <<customers, loans, nextLoanId, rowLock, pc, req, customer,
          eligibility, txLoans, txDebt, outcome, calls, initial, score>>

-----------------------------------------------------------------------------
(* Bounds of the model.                                                    *)

\* create_loan calls started in one behaviour
MaxCalls == 2

\* the two request workers that serve calls concurrently
Procs == {"w1", "w2"}

\* ids of the customers that exist, and an id that does not
CustomerIds == {1, 2}
MissingIds == {3}

\* request values (loan_amount in hundredths, interest_rate in hundredths
\* of a percent, tenure in months) that pass CreateLoanSerializer
Amounts == {2000, 4000}
Rates == {1000, 2000}
Tenures == {1, 2}

-----------------------------------------------------------------------------
(* Arithmetic helpers.                                                     *)

RECURSIVE Gcd(_, _)
Gcd(a, b) == IF b = 0 THEN a ELSE Gcd(b, a % b)

RECURSIVE Pow(_, _)
Pow(a, n) == IF n = 0 THEN 1 ELSE a * Pow(a, n - 1)

\* Decimal.quantize(TWO_PLACES, rounding=ROUND_HALF_UP) of num/den >= 0,
\* in hundredths when num is in hundredths
QuantizeHalfUp(num, den) == (2 * num + den) \div (2 * den)

\* Python's round() of the non-negative rational num/den: ties go to even
RoundHalfEven(num, den) ==
    LET q == num \div den
        r == num % den
    IN  IF 2 * r < den THEN q
        ELSE IF 2 * r > den THEN q + 1
        ELSE IF q % 2 = 0 THEN q ELSE q + 1

RECURSIVE SumAmount(_)
SumAmount(S) ==
    IF S = {} THEN 0
    ELSE LET l == CHOOSE x \in S : TRUE
         IN  l.loan_amount + SumAmount(S \ {l})

RECURSIVE SumInstallment(_)
SumInstallment(S) ==
    IF S = {} THEN 0
    ELSE LET l == CHOOSE x \in S : TRUE
         IN  l.monthly_installment + SumInstallment(S \ {l})

RECURSIVE SumTenure(_)
SumTenure(S) ==
    IF S = {} THEN 0
    ELSE LET l == CHOOSE x \in S : TRUE
         IN  l.tenure + SumTenure(S \ {l})

RECURSIVE SumOnTime(_)
SumOnTime(S) ==
    IF S = {} THEN 0
    ELSE LET l == CHOOSE x \in S : TRUE
         IN  l.emis_paid_on_time + SumOnTime(S \ {l})

-----------------------------------------------------------------------------
(* apps/core/utils.py                                                      *)

\* "raise ValueError": calculate_emi returns no instalment (an instalment is
\* never negative)
ValueError == -1

\* calculate_emi.  With r = annual_rate/1200 = rn/rd in lowest terms,
\* P*r*(1+r)^n / ((1+r)^n - 1) = P*rn*(rd+rn)^n / (rd*((rd+rn)^n - rd^n)).
calculate_emi(principal, annual_rate, tenure_months) ==
    IF principal <= 0 \/ annual_rate < 0 \/ tenure_months < 1
    THEN ValueError
    ELSE IF annual_rate = 0
    THEN QuantizeHalfUp(principal, tenure_months)
    ELSE LET g  == Gcd(annual_rate, 120000)
             rn == annual_rate \div g
             rd == 120000 \div g
             up == Pow(rd + rn, tenure_months)
             dn == Pow(rd, tenure_months)
         IN  QuantizeHalfUp(principal * rn * up, rd * (up - dn))

\* round_to_nearest_lakh with an exact half rounded down
round_to_nearest_lakh_HalfDown(amount) ==
    IF amount <= 0 THEN 0
    ELSE ((2 * amount + 99999) \div 200000) * 100000

\* round_to_nearest_lakh for a whole amount: floor(amount/lakh + 0.5) * lakh
round_to_nearest_lakh(amount) ==
    IF amount <= 0 THEN 0
    ELSE ((2 * amount + 100000) \div 200000) * 100000

-----------------------------------------------------------------------------
(* apps/loans/services.py: CreditScoreService                              *)

WEIGHT_ON_TIME_PAYMENT == 30
WEIGHT_NUM_LOANS == 20
WEIGHT_CURRENT_YEAR_ACTIVITY == 20
WEIGHT_LOAN_VOLUME == 30

\* date.today(), in months since year 0; a date's year is date \div 12
today == 24322

Year(d) == d \div 12

\* LoansOf without the filter on the customer
LoansOf_Unfiltered(cust, visible) == visible

\* Loan.objects.filter(customer=customer) over the rows a statement sees
LoansOf(cust, visible) == {l \in visible : l.customer_id = cust.id}

ActiveLoansOf(cust, visible) == {l \in LoansOf(cust, visible) : l.is_active}

\* the step tables, in tenths (1.0 -> 10); each times its weight is a whole
\* number of tenths of a point
\* LoanCountRatio with the upper bound of each bracket exclusive
LoanCountRatio_Exclusive(total_loans) ==
    IF total_loans < 2 THEN 10
    ELSE IF total_loans < 5 THEN 7
    ELSE IF total_loans < 10 THEN 4
    ELSE 1

LoanCountRatio(total_loans) ==
    IF total_loans <= 2 THEN 10
    ELSE IF total_loans <= 5 THEN 7
    ELSE IF total_loans <= 10 THEN 4
    ELSE 1

ActivityRatio(current_year_loans) ==
    IF current_year_loans = 0 THEN 10
    ELSE IF current_year_loans <= 2 THEN 7
    ELSE IF current_year_loans <= 4 THEN 4
    ELSE 1

\* volume_ratio = total_loan_volume / approved_limit compared with 0.25, 0.5,
\* 0.75 and 1.0 (total_loan_volume in hundredths, approved_limit whole)
VolumeScoreRatio(total_loan_volume, approved_limit) ==
    IF approved_limit > 0
    THEN IF 4 * total_loan_volume <= 100 * approved_limit THEN 10
         ELSE IF 2 * total_loan_volume <= 100 * approved_limit THEN 7
         ELSE IF 4 * total_loan_volume <= 300 * approved_limit THEN 4
         ELSE IF total_loan_volume <= 100 * approved_limit THEN 2
         ELSE 0
    ELSE 0

\* Clamp with the score returned as rounded
Clamp_None(total_score) == total_score

\* max(0, min(100, total_score))
Clamp(total_score) == IF total_score < 0 THEN 0 ELSE IF total_score > 100 THEN 100 ELSE total_score

\* OverExtended with >= in place of >
OverExtended_Inclusive(total_current_loan_amount, approved_limit) == total_current_loan_amount >= 100 * approved_limit

\* factor v: total_current_loan_amount > customer.approved_limit
OverExtended(total_current_loan_amount, approved_limit) == total_current_loan_amount > 100 * approved_limit

\* CreditScoreService.calculate(customer), reading the rows in `visible`.
\* The code adds the four scores as floats and rounds with round(); the
\* three step scores are whole numbers, so the sum is the on-time score
\* 30 * on_time / due plus a whole number, rounded half to even.
CreditScoreCalculate(cust, visible) ==
    LET all    == LoansOf(cust, visible)
        active == ActiveLoansOf(cust, visible)
        total_current_loan_amount == SumAmount(active)
        total_emis_due     == SumTenure(all)
        total_emis_on_time == SumOnTime(all)
        current_year_loans ==
            Cardinality({l \in all : Year(l.start_date) = Year(today)})
        \* the three step scores, in whole points
        fixed == (LoanCountRatio(Cardinality(all)) * WEIGHT_NUM_LOANS
                  + ActivityRatio(current_year_loans)
                      * WEIGHT_CURRENT_YEAR_ACTIVITY
                  + VolumeScoreRatio(SumAmount(all), cust.approved_limit)
                      * WEIGHT_LOAN_VOLUME) \div 10
        total_score ==
            IF total_emis_due > 0
            THEN RoundHalfEven(total_emis_on_time * WEIGHT_ON_TIME_PAYMENT
                                 + fixed * total_emis_due,
                               total_emis_due)
            ELSE fixed
    IN  IF all = {} THEN 50
        ELSE IF OverExtended(total_current_loan_amount, cust.approved_limit)
        THEN 0
        ELSE Clamp(total_score)

-----------------------------------------------------------------------------
(* apps/loans/services.py: EligibilityService                              *)

_build_response(customer_id, approval, interest_rate, corrected_interest_rate, tenure, monthly_installment) ==
    [customer_id             |-> customer_id,
     approval                |-> approval,
     interest_rate           |-> interest_rate,
     corrected_interest_rate |-> corrected_interest_rate,
     tenure                  |-> tenure,
     monthly_installment     |-> monthly_installment]

\* emi_limit = monthly_salary * 0.5, in hundredths
EmiLimit(cust) == cust.monthly_salary * 50

\* steps 4 and 5: the slab of the score decides approval and the rate
\* SlabApproval with a score of exactly 10 approved
SlabApproval_From10(credit_score) == credit_score >= 10

SlabApproval(credit_score) == credit_score > 10

\* SlabRate without the branch for scores above 50
SlabRate_NoTopSlab(credit_score, interest_rate) ==
    IF 30 < credit_score
    THEN (IF interest_rate > 1200 THEN interest_rate ELSE 1200)
    ELSE IF 10 < credit_score /\ credit_score <= 30
    THEN (IF interest_rate > 1600 THEN interest_rate ELSE 1600)
    ELSE interest_rate

\* SlabRate with a score of exactly 50 in the top slab
SlabRate_From50(credit_score, interest_rate) ==
    IF credit_score >= 50 THEN interest_rate
    ELSE IF 30 < credit_score /\ credit_score <= 50
    THEN (IF interest_rate > 1200 THEN interest_rate ELSE 1200)
    ELSE IF 10 < credit_score /\ credit_score <= 30
    THEN (IF interest_rate > 1600 THEN interest_rate ELSE 1600)
    ELSE interest_rate

\* SlabRate with a score of exactly 30 in the slab of 12.00
SlabRate_From30(credit_score, interest_rate) ==
    IF credit_score > 50 THEN interest_rate
    ELSE IF 30 <= credit_score /\ credit_score <= 50
    THEN (IF interest_rate > 1200 THEN interest_rate ELSE 1200)
    ELSE IF 10 < credit_score /\ credit_score < 30
    THEN (IF interest_rate > 1600 THEN interest_rate ELSE 1600)
    ELSE interest_rate

SlabRate(credit_score, interest_rate) ==
    IF credit_score > 50 THEN interest_rate
    ELSE IF 30 < credit_score /\ credit_score <= 50
    THEN (IF interest_rate > 1200 THEN interest_rate ELSE 1200)
    ELSE IF 10 < credit_score /\ credit_score <= 30
    THEN (IF interest_rate > 1600 THEN interest_rate ELSE 1600)
    ELSE interest_rate

\* OverApprovedLimit with step 2 left out
OverApprovedLimit_Skipped(cust, loan_amount) == FALSE

\* step 2: loan_amount > customer.approved_limit
OverApprovedLimit(cust, loan_amount) == loan_amount > 100 * cust.approved_limit

\* EmiCeilingReached with > in place of >=
EmiCeilingReached_Strict(current_emi_total, emi_limit) == current_emi_total > emi_limit

\* step 3: current_emi_total >= emi_limit
EmiCeilingReached(current_emi_total, emi_limit) == current_emi_total >= emi_limit

\* WouldBreachCeiling without the additional check
WouldBreachCeiling_Never(current_emi_total, final_emi, emi_limit) == FALSE

\* WouldBreachCeiling with >= in place of >
WouldBreachCeiling_Inclusive(current_emi_total, final_emi, emi_limit) == current_emi_total + final_emi >= emi_limit

\* the additional check: (current_emi_total + final_emi) > emi_limit
WouldBreachCeiling(current_emi_total, final_emi, emi_limit) == current_emi_total + final_emi > emi_limit

\* EligibilityService.check(customer, loan_amount, interest_rate, tenure)
EligibilityCheck(cust, visible, loan_amount, interest_rate, tenure) ==
    LET credit_score == CreditScoreCalculate(cust, visible)
        current_emi_total == SumInstallment(ActiveLoansOf(cust, visible))
        emi_limit == EmiLimit(cust)
        new_emi == calculate_emi(loan_amount, interest_rate, tenure)
        corrected_interest_rate == SlabRate(credit_score, interest_rate)
        final_emi ==
            calculate_emi(loan_amount, corrected_interest_rate, tenure)
        approval ==
            /\ SlabApproval(credit_score)
            /\ ~WouldBreachCeiling(current_emi_total, final_emi, emi_limit)
    IN  IF OverApprovedLimit(cust, loan_amount)
        THEN _build_response(cust.id, FALSE, interest_rate, interest_rate,
                             tenure, new_emi)
        ELSE IF EmiCeilingReached(current_emi_total, emi_limit)
        THEN _build_response(cust.id, FALSE, interest_rate, interest_rate,
                             tenure, new_emi)
        ELSE _build_response(cust.id, approval, interest_rate,
                             corrected_interest_rate, tenure, final_emi)

-----------------------------------------------------------------------------
(* apps/loans/services.py: LoanService                                     *)

LowScoreReason(credit_score) ==
    [text |-> "Credit score too low (%d/100).", score |-> {credit_score}]

EmiReason ==
    [text |-> "Current EMIs exceed 50% of monthly income.", score |-> {}]

DefaultReason ==
    [text |-> "Loan not approved based on eligibility criteria.",
     score |-> {}]

\* LoanService._get_rejection_message(customer): the reasons, in order
\* (the message is these joined by a space)
_get_rejection_message(cust, visible) ==
    LET current_emi == SumInstallment(ActiveLoansOf(cust, visible))
        emi_limit == EmiLimit(cust)
        credit_score == CreditScoreCalculate(cust, visible)
        reasons ==
            (IF credit_score <= 10
             THEN <<LowScoreReason(credit_score)>> ELSE <<>>)
            \o (IF current_emi >= emi_limit THEN <<EmiReason>> ELSE <<>>)
    IN  IF reasons # <<>> THEN reasons ELSE <<DefaultReason>>

\* NewLoan with the instalment of the requested rate
NewLoan_RequestedEmi(id, cust, loan_amount, tenure, elig) ==
    [id                  |-> id,
     customer_id         |-> cust.id,
     loan_amount         |-> loan_amount,
     tenure              |-> tenure,
     interest_rate       |-> elig.corrected_interest_rate,
     monthly_installment |-> calculate_emi(loan_amount, elig.interest_rate,
                                           tenure),
     emis_paid_on_time   |-> 0,
     start_date          |-> today,
     end_date            |-> today + tenure,
     is_active           |-> TRUE]

\* NewLoan with the requested rate in place of the corrected one
NewLoan_RequestedRate(id, cust, loan_amount, tenure, elig) ==
    [id                  |-> id,
     customer_id         |-> cust.id,
     loan_amount         |-> loan_amount,
     tenure              |-> tenure,
     interest_rate       |-> elig.interest_rate,
     monthly_installment |-> elig.monthly_installment,
     emis_paid_on_time   |-> 0,
     start_date          |-> today,
     end_date            |-> today + tenure,
     is_active           |-> TRUE]

\* Loan.objects.create(...) of create_loan: the row inserted for an approved
\* request; start_date = today, end_date = today + relativedelta(months)
NewLoan(id, cust, loan_amount, tenure, elig) ==
    [id                  |-> id,
     customer_id         |-> cust.id,
     loan_amount         |-> loan_amount,
     tenure              |-> tenure,
     interest_rate       |-> elig.corrected_interest_rate,
     monthly_installment |-> elig.monthly_installment,
     emis_paid_on_time   |-> 0,
     start_date          |-> today,
     end_date            |-> today + tenure,
     is_active           |-> TRUE]

\* NewDebt with the debt set to the principal instead of incremented by it
NewDebt_Overwrite(cust, loan_amount) == loan_amount

\* customer.current_debt += loan_amount
NewDebt(cust, loan_amount) == cust.current_debt + loan_amount

\* CreateLoanView.post: 201 for an approved result, 200 for a rejection
ViewStatus(loan_approved) == IF loan_approved THEN 201 ELSE 200

\* RejectionOutcome with the rejection raised as LoanNotApprovedError (400)
RejectionOutcome_AsError(customer_id, message) ==
    [kind                |-> "error",
     status              |-> 400,
     loan_id             |-> {},
     customer_id         |-> customer_id,
     loan_approved       |-> FALSE,
     message             |-> message,
     monthly_installment |-> {},
     error               |-> "loan_not_approved"]

\* the dict create_loan returns for a rejection, as the view sends it
RejectionOutcome(customer_id, message) ==
    [kind                |-> "response",
     status              |-> ViewStatus(FALSE),
     loan_id             |-> {},
     customer_id         |-> customer_id,
     loan_approved       |-> FALSE,
     message             |-> message,
     monthly_installment |-> {},
     error               |-> ""]

\* the dict create_loan returns for an approval, as the view sends it
ApprovalOutcome(customer_id, loan_id, monthly_installment) ==
    [kind                |-> "response",
     status              |-> ViewStatus(TRUE),
     loan_id             |-> {loan_id},
     customer_id         |-> customer_id,
     loan_approved       |-> TRUE,
     message             |-> <<[text |-> "Loan approved successfully.",
                                score |-> {}]>>,
     monthly_installment |-> {monthly_installment},
     error               |-> ""]

\* CustomerNotFoundError with Customer.DoesNotExist left uncaught (500)
CustomerNotFoundError_Uncaught(customer_id) ==
    [kind                |-> "error",
     status              |-> 500,
     loan_id             |-> {},
     customer_id         |-> customer_id,
     loan_approved       |-> FALSE,
     message             |-> <<>>,
     monthly_installment |-> {},
     error               |-> "DoesNotExist"]

\* CustomerNotFoundError (an APIException with status_code 404) raised by
\* create_loan and turned into a response by custom_exception_handler
CustomerNotFoundError(customer_id) ==
    [kind                |-> "error",
     status              |-> 404,
     loan_id             |-> {},
     customer_id         |-> customer_id,
     loan_approved       |-> FALSE,
     message             |-> <<>>,
     monthly_installment |-> {},
     error               |-> "customer_not_found"]

\* a database error raised by a write: it leaves create_loan through
\* transaction.atomic and custom_exception_handler answers 500
StorageError(customer_id, statement) ==
    [kind                |-> "error",
     status              |-> 500,
     loan_id             |-> {},
     customer_id         |-> customer_id,
     loan_approved       |-> FALSE,
     message             |-> <<>>,
     monthly_installment |-> {},
     error               |-> statement]

\* a ValueError of calculate_emi is no APIException: it leaves the view and
\* custom_exception_handler answers 500
UnhandledValueError(customer_id) ==
    [kind                |-> "error",
     status              |-> 500,
     loan_id             |-> {},
     customer_id         |-> customer_id,
     loan_approved       |-> FALSE,
     message             |-> <<>>,
     monthly_installment |-> {},
     error               |-> "ValueError"]

\* serializer.is_valid(raise_exception=True) fails: ValidationError, 400
ValidationError(customer_id) ==
    [kind                |-> "error",
     status              |-> 400,
     loan_id             |-> {},
     customer_id         |-> customer_id,
     loan_approved       |-> FALSE,
     message             |-> <<>>,
     monthly_installment |-> {},
     error               |-> "ValidationError"]

\* CreateLoanSerializerValid without min_value on tenure
CreateLoanSerializerValid_AnyTenure(data) ==
    /\ data.customer_id >= 1
    /\ data.loan_amount >= 1
    /\ data.interest_rate >= 0 /\ data.interest_rate <= 10000
    /\ data.tenure <= 360

\* apps/loans/serializers.py: CreateLoanSerializer and
\* CheckEligibilitySerializer (loan_amount min_value 0.01)
CreateLoanSerializerValid(data) ==
    /\ data.customer_id >= 1
    /\ data.loan_amount >= 1
    /\ data.interest_rate >= 0 /\ data.interest_rate <= 10000
    /\ data.tenure >= 1 /\ data.tenure <= 360

CheckEligibilitySerializerValid(data) ==
    /\ data.customer_id >= 1
    /\ data.loan_amount >= 1
    /\ data.interest_rate >= 0 /\ data.interest_rate <= 10000
    /\ data.tenure >= 1 /\ data.tenure <= 360

-----------------------------------------------------------------------------
(* The database and the request workers.                                   *)

NoRequest == [customer_id |-> 0, loan_amount |-> 0, interest_rate |-> 0,
              tenure |-> 0]

NoCustomer == [id |-> 0, monthly_salary |-> 0, approved_limit |-> 0,
               current_debt |-> 0]

NoEligibility == _build_response(0, FALSE, 0, 0, 0, 0)

\* no score computed yet (a score is never negative)
NoScore == -1

NoOutcome == [kind |-> "none", status |-> 0, loan_id |-> {},
              customer_id |-> 0, loan_approved |-> FALSE, message |-> <<>>,
              monthly_installment |-> {}, error |-> ""]

\* a row of table loans as the ingestion task or an earlier call left it
LoanRow(id, customer_id, loan_amount, tenure, interest_rate, monthly_installment, emis_paid_on_time, start_date, is_active) ==
    [id                  |-> id,
     customer_id         |-> customer_id,
     loan_amount         |-> loan_amount,
     tenure              |-> tenure,
     interest_rate       |-> interest_rate,
     monthly_installment |-> monthly_installment,
     emis_paid_on_time   |-> emis_paid_on_time,
     start_date          |-> start_date,
     end_date            |-> start_date + tenure,
     is_active           |-> is_active]

\* loan histories the first call may find
InitHistories ==
    { {},
      \* instalments already at half the salary
      {LoanRow(1, 1, 3000, 12, 1000, 5000, 0, today - 12, TRUE)},
      \* active principal above approved_limit
      {LoanRow(1, 1, 7000, 12, 1000, 1000, 6, today - 6, TRUE)},
      \* both
      {LoanRow(1, 1, 7000, 12, 1000, 5000, 6, today - 6, TRUE)},
      \* one closed loan, every instalment paid on time
      {LoanRow(1, 1, 1000, 2, 1000, 505, 2, today - 24, FALSE)} }

InitCustomers(history) ==
    [c \in CustomerIds |->
        [id             |-> c,
         monthly_salary |-> 100,
         approved_limit |-> IF c = 1 THEN 60 ELSE 30,
         current_debt   |-> SumAmount({l \in history : l.customer_id = c})]]

\* the rows a statement of p's transaction reads under READ COMMITTED
Visible(p) == loans \cup txLoans[p]

\* LockKey with one lock for the whole table
LockKey_Table(c) == 1

\* Customer.objects.select_for_update().get(pk=c) waits while another
\* transaction holds the row's lock; the lock is per customer row
LockKey(c) == c

\* RowLockFree for a read that does not wait for the lock
RowLockFree_NoWait(c, p) == TRUE

RowLockFree(c, p) == rowLock[LockKey(c)] \subseteq {p}

\* AcquireRowLock for a plain get(): no lock is taken
AcquireRowLock_NoLock(c, p) == rowLock

AcquireRowLock(c, p) == [rowLock EXCEPT ![LockKey(c)] = {p}]

\* ReleaseRowLocks for a transaction that ends with its locks kept
ReleaseRowLocks_Keep(p) == rowLock

\* the end of a transaction releases every row lock it holds
ReleaseRowLocks(p) == [c \in DOMAIN rowLock |-> rowLock[c] \ {p}]

\* RolledBackLoans without transaction.atomic: the insert stays
RolledBackLoans_Autocommit(p) == loans \cup txLoans[p]

\* what a rolled-back transaction leaves in table loans
RolledBackLoans(p) == loans

\* what a committed transaction leaves in tables loans and customers
CommittedLoans(p) == loans \cup txLoans[p]

CommittedCustomers(p) ==
    IF txDebt[p] = {} THEN customers
    ELSE [customers EXCEPT ![customer[p].id].current_debt =
                              CHOOSE d \in txDebt[p] : TRUE]

Init ==
    /\ \E h \in InitHistories :
          /\ loans = h
          /\ customers = InitCustomers(h)
          /\ nextLoanId = Cardinality(h) + 1
          /\ initial = [customers |-> InitCustomers(h), loans |-> h,
                        nextLoanId |-> Cardinality(h) + 1]
    /\ rowLock = [c \in CustomerIds |-> {}]
    /\ pc = [p \in Procs |-> "idle"]
    /\ req = [p \in Procs |-> NoRequest]
    /\ customer = [p \in Procs |-> NoCustomer]
    /\ eligibility = [p \in Procs |-> NoEligibility]
    /\ txLoans = [p \in Procs |-> {}]
    /\ txDebt = [p \in Procs |-> {}]
    /\ outcome = [p \in Procs |-> NoOutcome]
    /\ score = [p \in Procs |-> NoScore]
    /\ calls = 0

\* CreateLoanView.post: a validated request enters create_loan, which opens
\* the transaction (transaction.atomic)
Post(p) ==
    /\ pc[p] = "idle"
    /\ calls < MaxCalls
    /\ \E c \in CustomerIds \cup MissingIds, a \in Amounts, r \in Rates,
          t \in Tenures :
          req' = [req EXCEPT ![p] = [customer_id |-> c, loan_amount |-> a,
                                     interest_rate |-> r, tenure |-> t]]
    /\ pc' = [pc EXCEPT ![p] = "select_for_update"]
    /\ calls' = calls + 1
    /\ UNCHANGED <<customers, loans, nextLoanId, rowLock, customer,
                   eligibility, txLoans, txDebt, outcome, initial, score>>

\* the transaction ends on an exception: its writes are discarded, its
\* locks released, and the view's caller gets the error response
Abort(p, response) ==
    /\ loans' = RolledBackLoans(p)
    /\ rowLock' = ReleaseRowLocks(p)
    /\ txLoans' = [txLoans EXCEPT ![p] = {}]
    /\ txDebt' = [txDebt EXCEPT ![p] = {}]
    /\ outcome' = [outcome EXCEPT ![p] = response]
    /\ pc' = [pc EXCEPT ![p] = "done"]

\* step 1: Customer.objects.select_for_update().get(pk=customer_id)
SelectForUpdateMissing(p) ==
    /\ pc[p] = "select_for_update"
    /\ req[p].customer_id \notin DOMAIN customers
    /\ Abort(p, CustomerNotFoundError(req[p].customer_id))
    /\ UNCHANGED <<customers, nextLoanId, req, customer, eligibility,
                   calls, initial, score>>

SelectForUpdate(p) ==
    /\ pc[p] = "select_for_update"
    /\ req[p].customer_id \in DOMAIN customers
    /\ RowLockFree(req[p].customer_id, p)
    /\ rowLock' = AcquireRowLock(req[p].customer_id, p)
    /\ customer' = [customer EXCEPT ![p] = customers[req[p].customer_id]]
    /\ pc' = [pc EXCEPT ![p] = "check"]
    /\ UNCHANGED <<customers, loans, nextLoanId, req, eligibility, txLoans,
                   txDebt, outcome, calls, initial, score>>

\* step 2: EligibilityService.check with the locked customer; a ValueError
\* of its calculate_emi call leaves create_loan through transaction.atomic
Check(p) ==
    /\ pc[p] = "check"
    /\ score' = [score EXCEPT ![p] =
          CreditScoreCalculate(customer[p], Visible(p))]
    /\ IF calculate_emi(req[p].loan_amount, req[p].interest_rate,
                        req[p].tenure) = ValueError
       THEN /\ Abort(p, UnhandledValueError(req[p].customer_id))
            /\ UNCHANGED <<customers, nextLoanId, req, customer, eligibility,
                           calls, initial>>
       ELSE /\ eligibility' = [eligibility EXCEPT ![p] =
                  EligibilityCheck(customer[p], Visible(p),
                                   req[p].loan_amount, req[p].interest_rate,
                                   req[p].tenure)]
            /\ pc' = [pc EXCEPT ![p] =
                  IF ~eligibility'[p].approval THEN "reject" ELSE "insert"]
            /\ UNCHANGED <<customers, loans, nextLoanId, rowLock, req,
                           customer, txLoans, txDebt, outcome, calls,
                           initial>>

\* the rejection dict, with the message of _get_rejection_message
Reject(p) ==
    /\ pc[p] = "reject"
    /\ outcome' = [outcome EXCEPT ![p] =
          RejectionOutcome(req[p].customer_id,
                           _get_rejection_message(customer[p], Visible(p)))]
    /\ pc' = [pc EXCEPT ![p] = "commit"]
    /\ UNCHANGED <<customers, loans, nextLoanId, rowLock, req, customer,
                   eligibility, txLoans, txDebt, calls, initial, score>>

\* Loan.objects.create(...): the row gets the next value of the sequence
Insert(p) ==
    /\ pc[p] = "insert"
    /\ txLoans' = [txLoans EXCEPT ![p] =
          @ \cup {NewLoan(nextLoanId, customer[p], req[p].loan_amount,
                          req[p].tenure, eligibility[p])}]
    /\ nextLoanId' = nextLoanId + 1
    /\ pc' = [pc EXCEPT ![p] = "save"]
    /\ UNCHANGED <<customers, loans, rowLock, req, customer, eligibility,
                   txDebt, outcome, calls, initial, score>>

\* Loan.objects.create(...) raises (constraint violation, storage error)
InsertFails(p) ==
    /\ pc[p] = "insert"
    /\ Abort(p, StorageError(req[p].customer_id, "insert into loans"))
    /\ UNCHANGED <<customers, nextLoanId, req, customer, eligibility,
                   calls, initial, score>>

\* customer.current_debt += loan_amount; customer.save(update_fields=...);
\* then the approval dict is built
Save(p) ==
    /\ pc[p] = "save"
    /\ LET d == NewDebt(customer[p], req[p].loan_amount)
           l == CHOOSE x \in txLoans[p] : TRUE
       IN  /\ customer' = [customer EXCEPT ![p].current_debt = d]
           /\ txDebt' = [txDebt EXCEPT ![p] = {d}]
           /\ outcome' = [outcome EXCEPT ![p] =
                 ApprovalOutcome(req[p].customer_id, l.id,
                                 eligibility[p].monthly_installment)]
    /\ pc' = [pc EXCEPT ![p] = "commit"]
    /\ UNCHANGED <<customers, loans, nextLoanId, rowLock, req, eligibility,
                   txLoans, calls, initial, score>>

\* customer.save(...) raises
SaveFails(p) ==
    /\ pc[p] = "save"
    /\ Abort(p, StorageError(req[p].customer_id, "update customers"))
    /\ UNCHANGED <<customers, nextLoanId, req, customer, eligibility,
                   calls, initial, score>>

\* create_loan returns: transaction.atomic commits, the writes become
\* visible together and the row lock is released
Commit(p) ==
    /\ pc[p] = "commit"
    /\ loans' = CommittedLoans(p)
    /\ customers' = CommittedCustomers(p)
    /\ rowLock' = ReleaseRowLocks(p)
    /\ txLoans' = [txLoans EXCEPT ![p] = {}]
    /\ txDebt' = [txDebt EXCEPT ![p] = {}]
    /\ pc' = [pc EXCEPT ![p] = "done"]
    /\ UNCHANGED <<nextLoanId, req, customer, eligibility, outcome, calls,
                   initial, score>>

\* the response has been delivered; the worker is free for the next request
Return(p) ==
    /\ pc[p] = "done"
    /\ pc' = [pc EXCEPT ![p] = "idle"]
    /\ req' = [req EXCEPT ![p] = NoRequest]
    /\ customer' = [customer EXCEPT ![p] = NoCustomer]
    /\ eligibility' = [eligibility EXCEPT ![p] = NoEligibility]
    /\ outcome' = [outcome EXCEPT ![p] = NoOutcome]
    /\ score' = [score EXCEPT ![p] = NoScore]
    /\ UNCHANGED <<customers, loans, nextLoanId, rowLock, txLoans, txDebt,
                   calls, initial>>

Next ==
    \E p \in Procs :
        \/ Post(p)
        \/ SelectForUpdateMissing(p)
        \/ SelectForUpdate(p)
        \/ Check(p)
        \/ Reject(p)
        \/ Insert(p)
        \/ InsertFails(p)
        \/ Save(p)
        \/ SaveFails(p)
        \/ Commit(p)
        \/ Return(p)

Spec == Init /\ [][Next]_vars

\* a request in progress runs on: each worker thread is scheduled again and
\* executes the next statement of create_loan, and the database grants a row
\* lock that is free again and again to the transaction waiting for it
Fairness ==
    \A p \in Procs :
        /\ WF_vars(SelectForUpdateMissing(p))
        /\ SF_vars(SelectForUpdate(p))
        /\ WF_vars(Check(p))
        /\ WF_vars(Reject(p))
        /\ WF_vars(Insert(p) \/ InsertFails(p))
        /\ WF_vars(Save(p) \/ SaveFails(p))
        /\ WF_vars(Commit(p))

\* the database before the first loan of either customer
FairInit == Init /\ loans = {}

FairSpec == FairInit /\ [][Next]_vars /\ Fairness

-----------------------------------------------------------------------------
(* apps/loans/views.py: CheckEligibilityView, the preview of the decision.  *)
(* It fetches the customer with a plain get() (no lock, no transaction) and *)
(* answers with the dict of EligibilityService.check.                       *)

\* interest rates of preview requests: zero, below and at the slab rates
\* 12.00 and 16.00, and above both
PreviewRates == {0, 1000, 1200, 1600, 2000}

\* an active loan of customer 1 started this year
ActiveRow(monthly_installment, tenure, emis_paid_on_time) == LoanRow(1, 1, 3000, tenure, 1000, monthly_installment, emis_paid_on_time, today - 6, TRUE)

\* a loan of customer 1 that ended in an earlier year
ClosedRow(id, loan_amount, tenure, emis_paid_on_time) == LoanRow(id, 1, loan_amount, tenure, 1000, calculate_emi(loan_amount, 1000, tenure), emis_paid_on_time, today - 24 - id, FALSE)

\* six loans of customer 1 taken and closed this year
SixThisYear(emis_paid_on_time) == {LoanRow(i, 1, 1000, 5, 1000, 205, IF i = 1 THEN emis_paid_on_time ELSE 0, today - 8, FALSE) : i \in 1..6}

\* loan histories of customer 1 a preview may find
PreviewHistories ==
    { {},
      \* one closed loan, every instalment paid on time
      {ClosedRow(1, 1000, 2, 2)},
      \* one active loan: instalments well below, just below, at and above
      \* half the salary
      {ActiveRow(1000, 12, 0)},
      {ActiveRow(2980, 12, 0)},
      {ActiveRow(3000, 12, 0)},
      {ActiveRow(5000, 12, 0)},
      {ActiveRow(6000, 12, 0)},
      \* one active loan, 10 and 11 of 30 instalments paid on time
      {ActiveRow(1000, 30, 10)},
      {ActiveRow(1000, 30, 11)},
      \* three loans whose volume is above either limit
      {ActiveRow(2973, 12, 0), ClosedRow(2, 2000, 2, 0),
       ClosedRow(3, 2000, 1, 0)},
      {ActiveRow(1000, 12, 1), ClosedRow(2, 2000, 2, 0),
       ClosedRow(3, 2000, 1, 0)},
      {ActiveRow(1000, 7, 1), ClosedRow(2, 2000, 2, 0),
       ClosedRow(3, 2000, 1, 0)},
      \* many loans this year
      SixThisYear(0),
      SixThisYear(1),
      \* active principal above either limit
      {LoanRow(1, 1, 7000, 12, 1000, 1000, 6, today - 6, TRUE)},
      \* the same with every instalment paid, after a closed loan paid in
      \* full
      {LoanRow(1, 1, 7000, 12, 1000, 1000, 12, today - 11, TRUE),
       ClosedRow(2, 1000, 2, 2)} }

\* the customers' salary and limit, with the history of customer 1
PreviewProfiles ==
    {[monthly_salary |-> 100, approved_limit |-> l, history |-> h] :
        l \in {30, 60}, h \in PreviewHistories}
    \cup {[monthly_salary |-> s, approved_limit |-> l, history |-> h] :
            s \in {0, 100}, l \in {0, 60},
            h \in {{}, {ClosedRow(1, 1000, 2, 2)}}}

\* customer 2 has the same salary, limit and booked debt as customer 1 and
\* no loan
PreviewCustomers(profile) ==
    [c \in CustomerIds |->
        [id             |-> c,
         monthly_salary |-> profile.monthly_salary,
         approved_limit |-> profile.approved_limit,
         current_debt   |-> SumAmount(profile.history)]]

PreviewInit ==
    /\ \E profile \in PreviewProfiles :
          /\ loans = profile.history
          /\ customers = PreviewCustomers(profile)
          /\ nextLoanId = Cardinality(profile.history) + 1
          /\ initial = [customers |-> PreviewCustomers(profile),
                        loans |-> profile.history,
                        nextLoanId |-> Cardinality(profile.history) + 1]
    /\ rowLock = [c \in CustomerIds |-> {}]
    /\ pc = [p \in Procs |-> "idle"]
    /\ req = [p \in Procs |-> NoRequest]
    /\ customer = [p \in Procs |-> NoCustomer]
    /\ eligibility = [p \in Procs |-> NoEligibility]
    /\ txLoans = [p \in Procs |-> {}]
    /\ txDebt = [p \in Procs |-> {}]
    /\ outcome = [p \in Procs |-> NoOutcome]
    /\ score = [p \in Procs |-> NoScore]
    /\ calls = 0

\* CheckedLoans if check() booked the requested loan
CheckedLoans_Booked(cust, loan_amount, interest_rate, tenure) == loans \cup {LoanRow(nextLoanId, cust.id, loan_amount, tenure, interest_rate, calculate_emi(loan_amount, interest_rate, tenure), 0, today, TRUE)}

\* what EligibilityService.check leaves in table loans: its statements are
\* exists(), count() and aggregate() queries, it writes nothing
CheckedLoans(cust, loan_amount, interest_rate, tenure) == loans

\* the response of CheckEligibilityView.post: status 200 with the decision
EligibilityOutcome(elig) ==
    [kind                |-> "response",
     status              |-> 200,
     loan_id             |-> {},
     customer_id         |-> elig.customer_id,
     loan_approved       |-> elig.approval,
     message             |-> <<>>,
     monthly_installment |-> {elig.monthly_installment},
     error               |-> ""]

\* CheckEligibilityView.post for a customer that exists
CheckEligibility(p) ==
    /\ pc[p] = "idle"
    /\ calls < MaxCalls
    /\ \E c \in CustomerIds, a \in Amounts, r \in PreviewRates, t \in Tenures :
          /\ c \in DOMAIN customers
          /\ req' = [req EXCEPT ![p] = [customer_id |-> c, loan_amount |-> a,
                                        interest_rate |-> r, tenure |-> t]]
          /\ customer' = [customer EXCEPT ![p] = customers[c]]
          /\ score' = [score EXCEPT ![p] =
                CreditScoreCalculate(customers[c], loans)]
          /\ eligibility' = [eligibility EXCEPT ![p] =
                EligibilityCheck(customers[c], loans, a, r, t)]
          /\ loans' = CheckedLoans(customers[c], a, r, t)
    /\ outcome' = [outcome EXCEPT ![p] = EligibilityOutcome(eligibility'[p])]
    /\ pc' = [pc EXCEPT ![p] = "done"]
    /\ calls' = calls + 1
    /\ UNCHANGED <<customers, nextLoanId, rowLock, txLoans, txDebt, initial>>

\* CheckEligibilityView.post for a customer id that does not exist
CheckEligibilityNotFound(p) ==
    /\ pc[p] = "idle"
    /\ calls < MaxCalls
    /\ \E c \in MissingIds, a \in Amounts, r \in PreviewRates, t \in Tenures :
          req' = [req EXCEPT ![p] = [customer_id |-> c, loan_amount |-> a,
                                     interest_rate |-> r, tenure |-> t]]
    /\ outcome' = [outcome EXCEPT ![p] =
          CustomerNotFoundError(req'[p].customer_id)]
    /\ pc' = [pc EXCEPT ![p] = "done"]
    /\ calls' = calls + 1
    /\ UNCHANGED <<customers, loans, nextLoanId, rowLock, customer,
                   eligibility, txLoans, txDebt, initial, score>>

PreviewNext ==
    \E p \in Procs :
        \/ CheckEligibility(p)
        \/ CheckEligibilityNotFound(p)
        \/ Return(p)

PreviewSpec == PreviewInit /\ [][PreviewNext]_vars

-----------------------------------------------------------------------------
(* apps/loans/services.py: CreditScoreService.calculate on its own, over   *)
(* loan histories at the edges of its brackets.                            *)

\* numbers of loans, and of loans started this year, around the brackets of
\* factors ii and iii
ScoreCounts == {1, 2, 3, 5, 6, 10, 11}
ScoreThisYear == 0..5

\* total principal ever borrowed, at and just above 0.25, 0.5, 0.75 and 1.0
\* of an approved_limit of 100
ScoreVolumes == {2500, 2501, 5000, 5001, 7500, 7501, 10000, 10001}

\* instalments paid on time on the first loan (tenure 4; 5 is more than due)
ScorePaid == 0..5

\* n closed loans of customer 1 with tenure 4, the first k of them started
\* this year, total principal volume, paid instalments on time on the first
ScoreHistory(n, k, volume, paid) == {LoanRow(i, 1, IF i = 1 THEN volume - 100 * (n - 1) ELSE 100, 4, 1000, 100, IF i = 1 THEN paid ELSE 0, IF i <= k THEN today - 5 ELSE today - 24, FALSE) : i \in 1..n}

ScoreProfiles ==
    {[monthly_salary |-> 100, approved_limit |-> 100,
      history |-> ScoreHistory(n, k, v, o)] :
        n \in ScoreCounts, k \in ScoreThisYear, v \in ScoreVolumes,
        o \in ScorePaid}
    \cup {[monthly_salary |-> 100, approved_limit |-> 0,
           history |-> ScoreHistory(n, 0, 2500, o)] :
             n \in ScoreCounts, o \in ScorePaid}

ScoreInit ==
    /\ \E profile \in ScoreProfiles :
          /\ loans = profile.history
          /\ customers = PreviewCustomers(profile)
          /\ nextLoanId = Cardinality(profile.history) + 1
          /\ initial = [customers |-> PreviewCustomers(profile),
                        loans |-> profile.history,
                        nextLoanId |-> Cardinality(profile.history) + 1]
    /\ rowLock = [c \in CustomerIds |-> {}]
    /\ pc = [p \in Procs |-> "idle"]
    /\ req = [p \in Procs |-> NoRequest]
    /\ customer = [p \in Procs |-> NoCustomer]
    /\ eligibility = [p \in Procs |-> NoEligibility]
    /\ txLoans = [p \in Procs |-> {}]
    /\ txDebt = [p \in Procs |-> {}]
    /\ outcome = [p \in Procs |-> NoOutcome]
    /\ score = [p \in Procs |-> NoScore]
    /\ calls = 0

\* CreditScoreService.calculate(customer) for a customer that exists
Calculate(p) ==
    /\ pc[p] = "idle"
    /\ calls < MaxCalls
    /\ \E c \in CustomerIds :
          /\ customer' = [customer EXCEPT ![p] = customers[c]]
          /\ score' = [score EXCEPT ![p] =
                CreditScoreCalculate(customers[c], loans)]
    /\ pc' = [pc EXCEPT ![p] = "done"]
    /\ calls' = calls + 1
    /\ UNCHANGED <<customers, loans, nextLoanId, rowLock, req, eligibility,
                   txLoans, txDebt, outcome, initial>>

ScoreNext ==
    \E p \in Procs :
        \/ Calculate(p)
        \/ Return(p)

ScoreSpec == ScoreInit /\ [][ScoreNext]_vars

-----------------------------------------------------------------------------
(* Requests as the client sends them: the serializers of                   *)
(* apps/loans/serializers.py in front of the two views, and calculate_emi  *)
(* called on its own.                                                      *)

RawCustomerIds == {1, 3}
RawAmounts == {-2000, 0, 2000}
RawRates == {-100, 0, 1000}
RawTenures == {0, 1}

RequestData(c, a, r, t) ==
    [customer_id |-> c, loan_amount |-> a, interest_rate |-> r, tenure |-> t]

\* what a direct call of calculate_emi gives its caller: the instalment, or
\* the ValueError and no value
EmiOutcome(principal, annual_rate, tenure_months) ==
    LET emi == calculate_emi(principal, annual_rate, tenure_months)
    IN  [kind                |-> "calculate_emi",
         status              |-> 0,
         loan_id             |-> {},
         customer_id         |-> 0,
         loan_approved       |-> FALSE,
         message             |-> <<>>,
         monthly_installment |-> IF emi = ValueError THEN {} ELSE {emi},
         error               |-> IF emi = ValueError THEN "ValueError" ELSE ""]

\* calculate_emi(principal, annual_rate, tenure_months), any arguments
CalculateEmi(p) ==
    /\ pc[p] = "idle"
    /\ calls < MaxCalls
    /\ \E a \in RawAmounts, r \in RawRates, t \in RawTenures :
          /\ req' = [req EXCEPT ![p] = RequestData(0, a, r, t)]
          /\ outcome' = [outcome EXCEPT ![p] = EmiOutcome(a, r, t)]
    /\ pc' = [pc EXCEPT ![p] = "done"]
    /\ calls' = calls + 1
    /\ UNCHANGED <<customers, loans, nextLoanId, rowLock, customer,
                   eligibility, txLoans, txDebt, initial, score>>

\* CreateLoanView.post: the serializer answers 400 or create_loan is entered
PostCreateLoan(p) ==
    /\ pc[p] = "idle"
    /\ calls < MaxCalls
    /\ \E c \in RawCustomerIds, a \in RawAmounts, r \in RawRates,
          t \in RawTenures :
          /\ req' = [req EXCEPT ![p] = RequestData(c, a, r, t)]
          /\ IF CreateLoanSerializerValid(req'[p])
             THEN /\ pc' = [pc EXCEPT ![p] = "select_for_update"]
                  /\ UNCHANGED outcome
             ELSE /\ pc' = [pc EXCEPT ![p] = "done"]
                  /\ outcome' = [outcome EXCEPT ![p] = ValidationError(c)]
    /\ calls' = calls + 1
    /\ UNCHANGED <<customers, loans, nextLoanId, rowLock, customer,
                   eligibility, txLoans, txDebt, initial, score>>

\* CheckEligibilityView.post: serializer, Customer.objects.get,
\* EligibilityService.check, response
PostCheckEligibility(p) ==
    /\ pc[p] = "idle"
    /\ calls < MaxCalls
    /\ \E c \in RawCustomerIds, a \in RawAmounts, r \in RawRates,
          t \in RawTenures :
          /\ req' = [req EXCEPT ![p] = RequestData(c, a, r, t)]
          /\ IF ~CheckEligibilitySerializerValid(req'[p])
             THEN /\ outcome' = [outcome EXCEPT ![p] = ValidationError(c)]
                  /\ UNCHANGED <<customer, score, eligibility, loans>>
             ELSE IF c \notin DOMAIN customers
             THEN /\ outcome' = [outcome EXCEPT ![p] =
                        CustomerNotFoundError(c)]
                  /\ UNCHANGED <<customer, score, eligibility, loans>>
             ELSE /\ customer' = [customer EXCEPT ![p] = customers[c]]
                  /\ score' = [score EXCEPT ![p] =
                        CreditScoreCalculate(customers[c], loans)]
                  /\ IF calculate_emi(a, r, t) = ValueError
                     THEN /\ outcome' = [outcome EXCEPT ![p] =
                                UnhandledValueError(c)]
                          /\ UNCHANGED <<eligibility, loans>>
                     ELSE /\ eligibility' = [eligibility EXCEPT ![p] =
                                EligibilityCheck(customers[c], loans, a, r, t)]
                          /\ loans' = CheckedLoans(customers[c], a, r, t)
                          /\ outcome' = [outcome EXCEPT ![p] =
                                EligibilityOutcome(eligibility'[p])]
    /\ pc' = [pc EXCEPT ![p] = "done"]
    /\ calls' = calls + 1
    /\ UNCHANGED <<customers, nextLoanId, rowLock, txLoans, txDebt, initial>>

RequestNext ==
    \E p \in Procs :
        \/ CalculateEmi(p)
        \/ PostCreateLoan(p)
        \/ PostCheckEligibility(p)
        \/ SelectForUpdateMissing(p)
        \/ SelectForUpdate(p)
        \/ Check(p)
        \/ Reject(p)
        \/ Insert(p)
        \/ InsertFails(p)
        \/ Save(p)
        \/ SaveFails(p)
        \/ Commit(p)
        \/ Return(p)

RequestSpec == Init /\ [][RequestNext]_vars

-----------------------------------------------------------------------------
(* apps/customers: registration.  RegisterCustomerView.post validates the  *)
(* request and calls CustomerService.register, which creates the row; the  *)
(* two loan views then work on the registered customers.                   *)

\* monthly_income of a registration request: not positive, 36 times it below
\* half a lakh, just under and over half a lakh, at 4.5 lakh, above it
RawIncomes == {-1, 0, 1, 1388, 1389, 12500, 13000}

\* arguments of round_to_nearest_lakh called on its own
LakhAmounts == {-500000, 0, 49999, 50000, 50001, 1620000, 1650000, 1680000}

\* RegisterCustomerSerializer, of which only monthly_income (min_value 1)
\* reaches the limit
RegisterCustomerSerializerValid(data) == data.monthly_income >= 1

\* Customer.objects.create(...) in register: current_debt is left to the
\* default of the model field, Decimal('0.00')
NewCustomer(id, monthly_income) ==
    [id             |-> id,
     monthly_salary |-> monthly_income,
     approved_limit |-> round_to_nearest_lakh(36 * monthly_income),
     current_debt   |-> 0]

\* the primary key the next row of table customers gets
NextCustomerId == Cardinality(DOMAIN customers) + 1

\* table customers after register has created the row
RegisteredCustomers(monthly_income) ==
    [c \in DOMAIN customers \cup {NextCustomerId} |->
        IF c = NextCustomerId THEN NewCustomer(NextCustomerId, monthly_income)
        ELSE customers[c]]

\* the 201 response of RegisterCustomerView.post
RegisterOutcome(customer_id) ==
    [kind                |-> "response",
     status              |-> 201,
     loan_id             |-> {},
     customer_id         |-> customer_id,
     loan_approved       |-> FALSE,
     message             |-> <<>>,
     monthly_installment |-> {},
     error               |-> ""]

\* the caller of round_to_nearest_lakh has its value
LakhOutcome ==
    [kind                |-> "round_to_nearest_lakh",
     status              |-> 0,
     loan_id             |-> {},
     customer_id         |-> 0,
     loan_approved       |-> FALSE,
     message             |-> <<>>,
     monthly_installment |-> {},
     error               |-> ""]

\* the database before the first registration
RegisterInit ==
    /\ customers = [c \in {} |-> NoCustomer]
    /\ loans = {}
    /\ nextLoanId = 1
    /\ initial = [customers |-> [c \in {} |-> NoCustomer], loans |-> {},
                  nextLoanId |-> 1]
    /\ rowLock = [c \in CustomerIds |-> {}]
    /\ pc = [p \in Procs |-> "idle"]
    /\ req = [p \in Procs |-> NoRequest]
    /\ customer = [p \in Procs |-> NoCustomer]
    /\ eligibility = [p \in Procs |-> NoEligibility]
    /\ txLoans = [p \in Procs |-> {}]
    /\ txDebt = [p \in Procs |-> {}]
    /\ outcome = [p \in Procs |-> NoOutcome]
    /\ score = [p \in Procs |-> NoScore]
    /\ calls = 0

\* round_to_nearest_lakh(amount): the argument is kept in req[p].loan_amount
\* and the returned limit in customer[p].approved_limit
RoundToNearestLakh(p) ==
    /\ pc[p] = "idle"
    /\ calls < MaxCalls
    /\ \E amount \in LakhAmounts :
          /\ req' = [req EXCEPT ![p] = RequestData(0, amount, 0, 0)]
          /\ customer' = [customer EXCEPT ![p] =
                [NoCustomer EXCEPT !.approved_limit =
                                      round_to_nearest_lakh(amount)]]
    /\ outcome' = [outcome EXCEPT ![p] = LakhOutcome]
    /\ pc' = [pc EXCEPT ![p] = "done"]
    /\ calls' = calls + 1
    /\ UNCHANGED <<customers, loans, nextLoanId, rowLock, eligibility,
                   txLoans, txDebt, initial, score>>

\* RegisterCustomerView.post: serializer, CustomerService.register (the new
\* row gets the next id), response; the table is capped at CustomerIds
PostRegister(p) ==
    /\ pc[p] = "idle"
    /\ calls < MaxCalls
    /\ Cardinality(DOMAIN customers) < Cardinality(CustomerIds)
    /\ \E monthly_income \in RawIncomes :
          IF RegisterCustomerSerializerValid([monthly_income |-> monthly_income])
          THEN /\ customers' = RegisteredCustomers(monthly_income)
               /\ customer' = [customer EXCEPT ![p] =
                     NewCustomer(NextCustomerId, monthly_income)]
               /\ outcome' = [outcome EXCEPT ![p] =
                     RegisterOutcome(NextCustomerId)]
          ELSE /\ outcome' = [outcome EXCEPT ![p] = ValidationError(0)]
               /\ UNCHANGED <<customers, customer>>
    /\ pc' = [pc EXCEPT ![p] = "done"]
    /\ calls' = calls + 1
    /\ UNCHANGED <<loans, nextLoanId, rowLock, req, eligibility, txLoans,
                   txDebt, initial, score>>

RegisterNext ==
    \E p \in Procs :
        \/ RoundToNearestLakh(p)
        \/ PostRegister(p)
        \/ CheckEligibility(p)
        \/ Post(p)
        \/ SelectForUpdateMissing(p)
        \/ SelectForUpdate(p)
        \/ Check(p)
        \/ Reject(p)
        \/ Insert(p)
        \/ InsertFails(p)
        \/ Save(p)
        \/ SaveFails(p)
        \/ Commit(p)
        \/ Return(p)

RegisterSpec == RegisterInit /\ [][RegisterNext]_vars

-----------------------------------------------------------------------------
(* apps/core/middleware.py: APIKeyMiddleware in front of the views.  A     *)
(* path is the sequence of its characters; settings.API_KEYS is kept in    *)
(* initial.API_KEYS.                                                       *)

EXEMPT_PATHS ==
    << <<"/", "h", "e", "a", "l", "t", "h", "/">>,
       <<"/", "h", "e", "a", "l", "t", "h">>,
       <<"/", "a", "d", "m", "i", "n", "/">> >>

\* str.startswith
StartsWith(string, prefix) ==
    /\ Len(string) >= Len(prefix)
    /\ SubSeq(string, 1, Len(prefix)) = prefix

RegisterPath == <<"/", "a", "p", "i", "/", "r", "e", "g", "i", "s", "t", "e", "r">>
CreateLoanPath == <<"/", "a", "p", "i", "/", "c", "r", "e", "a", "t", "e", "-", "l", "o", "a", "n">>
HealthPath == <<"/", "h", "e", "a", "l", "t", "h", "/">>

\* paths without a view of the two applications: the health check, the same
\* without its slash and with a suffix, the admin site, and a path that has
\* "health" but not at its start
OtherPaths ==
    { HealthPath,
      <<"/", "h", "e", "a", "l", "t", "h">>,
      <<"/", "h", "e", "a", "l", "t", "h", "z">>,
      <<"/", "a", "d", "m", "i", "n", "/", "l", "o", "g", "i", "n", "/">>,
      <<"/", "a", "p", "i", "/", "h", "e", "a", "l", "t", "h", "/">> }

\* the X-API-KEY header of a request: none, or one value
Headers ==
    { {}, {""}, {"test-api-key-123"}, {"another-key-456"}, {"wrong-key"},
      {" test-api-key-123"} }

\* settings.API_KEYS: the keys of the environment variable, stripped, the
\* empty ones dropped
ApiKeyLists ==
    { <<>>, <<"test-api-key-123">>,
      <<"test-api-key-123", "another-key-456">> }

\* requests that pass the middleware
GateIncomes == {1, 12500}
GateAmounts == {2000}

\* APIKeyMiddleware with any key accepted
APIKeyMiddleware_AnyKey(path, header, api_keys) ==
    LET provided_key == IF header = {} THEN "" ELSE CHOOSE k \in header : TRUE
    IN  IF \E i \in 1..Len(EXEMPT_PATHS) : StartsWith(path, EXEMPT_PATHS[i])
        THEN 0
        ELSE IF api_keys = <<>> THEN 0
        ELSE IF provided_key = "" THEN 401
        ELSE 0

\* APIKeyMiddleware.__call__: the status of its JsonResponse, or 0 when it
\* calls get_response(request)
APIKeyMiddleware(path, header, api_keys) ==
    LET provided_key == IF header = {} THEN "" ELSE CHOOSE k \in header : TRUE
    IN  IF \E i \in 1..Len(EXEMPT_PATHS) : StartsWith(path, EXEMPT_PATHS[i])
        THEN 0
        ELSE IF api_keys = <<>> THEN 0
        ELSE IF provided_key = "" THEN 401
        ELSE IF ~(\E i \in 1..Len(api_keys) : api_keys[i] = provided_key)
        THEN 403
        ELSE 0

\* the JsonResponse of the middleware
KeyRejected(http_status) ==
    [kind                |-> "error",
     status              |-> http_status,
     loan_id             |-> {},
     customer_id         |-> 0,
     loan_approved       |-> FALSE,
     message             |-> <<>>,
     monthly_installment |-> {},
     error               |-> IF http_status = 401
                             THEN "Authentication required"
                             ELSE "Invalid API key"]

\* what is behind the middleware for the other paths: health_check answers
\* 200 at /health/, CommonMiddleware redirects /health to it, the admin site
\* shows its login page, the URL resolver answers 404 elsewhere
RoutedOutcome(path) ==
    [kind                |-> "response",
     status              |-> IF path = HealthPath THEN 200
                             ELSE IF path = EXEMPT_PATHS[2] THEN 301
                             ELSE IF StartsWith(path, EXEMPT_PATHS[3]) THEN 200
                             ELSE 404,
     loan_id             |-> {},
     customer_id         |-> 0,
     loan_approved       |-> FALSE,
     message             |-> <<>>,
     monthly_installment |-> {},
     error               |-> ""]

GateRequest(path, header, c, a, r, t) ==
    [path |-> path, HTTP_X_API_KEY |-> header, customer_id |-> c,
     loan_amount |-> a, interest_rate |-> r, tenure |-> t]

\* an empty database and one of the key configurations
GateInit ==
    /\ customers = [c \in {} |-> NoCustomer]
    /\ loans = {}
    /\ nextLoanId = 1
    /\ \E api_keys \in ApiKeyLists :
          initial = [customers |-> [c \in {} |-> NoCustomer], loans |-> {},
                     nextLoanId |-> 1, API_KEYS |-> api_keys]
    /\ rowLock = [c \in CustomerIds |-> {}]
    /\ pc = [p \in Procs |-> "idle"]
    /\ req = [p \in Procs |-> NoRequest]
    /\ customer = [p \in Procs |-> NoCustomer]
    /\ eligibility = [p \in Procs |-> NoEligibility]
    /\ txLoans = [p \in Procs |-> {}]
    /\ txDebt = [p \in Procs |-> {}]
    /\ outcome = [p \in Procs |-> NoOutcome]
    /\ score = [p \in Procs |-> NoScore]
    /\ calls = 0

\* POST /api/register through the middleware
GateRegister(p) ==
    /\ pc[p] = "idle"
    /\ calls < MaxCalls
    /\ Cardinality(DOMAIN customers) < Cardinality(CustomerIds)
    /\ \E header \in Headers, monthly_income \in GateIncomes :
          /\ req' = [req EXCEPT ![p] =
                GateRequest(RegisterPath, header, 0, 0, 0, 0)]
          /\ IF APIKeyMiddleware(RegisterPath, header, initial.API_KEYS) = 0
             THEN /\ customers' = RegisteredCustomers(monthly_income)
                  /\ customer' = [customer EXCEPT ![p] =
                        NewCustomer(NextCustomerId, monthly_income)]
                  /\ outcome' = [outcome EXCEPT ![p] =
                        RegisterOutcome(NextCustomerId)]
             ELSE /\ outcome' = [outcome EXCEPT ![p] =
                        KeyRejected(APIKeyMiddleware(RegisterPath, header,
                                                     initial.API_KEYS))]
                  /\ UNCHANGED <<customers, customer>>
    /\ pc' = [pc EXCEPT ![p] = "done"]
    /\ calls' = calls + 1
    /\ UNCHANGED <<loans, nextLoanId, rowLock, eligibility, txLoans, txDebt,
                   initial, score>>

\* POST /api/create-loan through the middleware: rejected, or create_loan is
\* entered
GateCreateLoan(p) ==
    /\ pc[p] = "idle"
    /\ calls < MaxCalls
    /\ \E header \in Headers, c \in CustomerIds, a \in GateAmounts,
          r \in Rates, t \in Tenures :
          /\ req' = [req EXCEPT ![p] =
                GateRequest(CreateLoanPath, header, c, a, r, t)]
          /\ IF APIKeyMiddleware(CreateLoanPath, header, initial.API_KEYS) = 0
             THEN /\ pc' = [pc EXCEPT ![p] = "select_for_update"]
                  /\ UNCHANGED outcome
             ELSE /\ pc' = [pc EXCEPT ![p] = "done"]
                  /\ outcome' = [outcome EXCEPT ![p] =
                        KeyRejected(APIKeyMiddleware(CreateLoanPath, header,
                                                     initial.API_KEYS))]
    /\ calls' = calls + 1
    /\ UNCHANGED <<customers, loans, nextLoanId, rowLock, customer,
                   eligibility, txLoans, txDebt, initial, score>>

\* a request to one of the other paths
GateOther(p) ==
    /\ pc[p] = "idle"
    /\ calls < MaxCalls
    /\ \E header \in Headers, path \in OtherPaths :
          /\ req' = [req EXCEPT ![p] = GateRequest(path, header, 0, 0, 0, 0)]
          /\ outcome' = [outcome EXCEPT ![p] =
                IF APIKeyMiddleware(path, header, initial.API_KEYS) = 0
                THEN RoutedOutcome(path)
                ELSE KeyRejected(APIKeyMiddleware(path, header,
                                                  initial.API_KEYS))]
    /\ pc' = [pc EXCEPT ![p] = "done"]
    /\ calls' = calls + 1
    /\ UNCHANGED <<customers, loans, nextLoanId, rowLock, customer,
                   eligibility, txLoans, txDebt, initial, score>>

GateNext ==
    \E p \in Procs :
        \/ GateRegister(p)
        \/ GateCreateLoan(p)
        \/ GateOther(p)
        \/ SelectForUpdateMissing(p)
        \/ SelectForUpdate(p)
        \/ Check(p)
        \/ Reject(p)
        \/ Insert(p)
        \/ InsertFails(p)
        \/ Save(p)
        \/ SaveFails(p)
        \/ Commit(p)
        \/ Return(p)

GateSpec == GateInit /\ [][GateNext]_vars

-----------------------------------------------------------------------------
(* Vocabulary of the properties.                                           *)

\* positions at which create_loan is past select_for_update and before the
\* end of its transaction
InTransaction == {"check", "reject", "insert", "save", "commit"}

Done(p) == pc[p] = "done"

Approved(p) == Done(p) /\ outcome[p].loan_approved

Rejected(p) ==
    Done(p) /\ outcome[p].kind = "response" /\ ~outcome[p].loan_approved

\* the committed loans without the ones the finished calls of p and q made
LoansBefore(p, q) ==
    {l \in loans : l.id \notin outcome[p].loan_id \cup outcome[q].loan_id}

\* the loans create_loan has committed since the initial state
CreatedLoans(c) ==
    {l \in loans : l.customer_id = c /\ l \notin initial.loans}

HasReason(message, text) ==
    \E i \in 1..Len(message) : message[i].text = text

-----------------------------------------------------------------------------
\* C1: two calls for the same customer are never both approved when the
\* customer's active instalments plus both new EMIs exceed half the monthly
\* salary; the decision a call is about to write was taken against the
\* loans committed so far, the other call's included.
C1_NoJointBreach ==
    /\ \A p, q \in Procs :
          (p # q /\ Approved(p) /\ Approved(q)
             /\ req[p].customer_id = req[q].customer_id)
          => LET c == customers[req[p].customer_id]
             IN  SumInstallment(ActiveLoansOf(c, LoansBefore(p, q)))
                   + eligibility[p].monthly_installment
                   + eligibility[q].monthly_installment <= EmiLimit(c)
    /\ \A p \in Procs :
          pc[p] = "insert"
          => eligibility[p] =
                EligibilityCheck(customers[req[p].customer_id], loans,
                                 req[p].loan_amount, req[p].interest_rate,
                                 req[p].tenure)

\* one call approved, the other rejected although it would have been
\* approved on the loans that were there before the two calls
C1_Witness ==
    \E p, q \in Procs :
        /\ p # q /\ Approved(p) /\ Rejected(q)
        /\ req[p].customer_id = req[q].customer_id
        /\ LET c == customers[req[p].customer_id]
               e == EligibilityCheck(c, LoansBefore(p, q), req[q].loan_amount,
                                     req[q].interest_rate, req[q].tenure)
           IN  /\ e.approval
               /\ SumInstallment(ActiveLoansOf(c, LoansBefore(p, q)))
                    + eligibility[p].monthly_installment
                    + e.monthly_installment > EmiLimit(c)

\* C2 (as claimed): two calls for the same customer, each approvable on its
\* own, whose combined principal takes the customer's active principal over
\* approved_limit are never both approved.
C2_NeverBothApproved ==
    \A p, q \in Procs :
        (/\ p # q /\ Done(p) /\ Done(q)
         /\ outcome[p].kind = "response" /\ outcome[q].kind = "response"
         /\ req[p].customer_id = req[q].customer_id
         /\ LET c == customers[req[p].customer_id]
                before == LoansBefore(p, q)
            IN  /\ EligibilityCheck(c, before, req[p].loan_amount,
                                    req[p].interest_rate,
                                    req[p].tenure).approval
                /\ EligibilityCheck(c, before, req[q].loan_amount,
                                    req[q].interest_rate,
                                    req[q].tenure).approval
                /\ SumAmount(ActiveLoansOf(c, before)) + req[p].loan_amount
                     + req[q].loan_amount > 100 * c.approved_limit)
        => ~(outcome[p].loan_approved /\ outcome[q].loan_approved)

\* C3 (as claimed): a customer whose active principal starts within
\* approved_limit stays within it.
C3_LimitIsCeiling ==
    \A c \in CustomerIds :
        SumAmount(ActiveLoansOf(initial.customers[c], initial.loans))
            <= 100 * initial.customers[c].approved_limit
        => SumAmount(ActiveLoansOf(customers[c], loans))
            <= 100 * customers[c].approved_limit

\* C4: a call holds the lock of its customer's row from before its first
\* read of customer or loan state until its transaction ends: it is held
\* at the decision, the insert and the debt update, and it is given up only
\* by the step that commits or rolls back.
C4_LockHeld ==
    /\ [](\A p \in Procs :
            pc[p] \in InTransaction
            => rowLock[req[p].customer_id] = {p})
    /\ [][\A p \in Procs :
            /\ (customer'[p] # customer[p] \/ eligibility'[p] # eligibility[p]
                  \/ txLoans'[p] # txLoans[p] \/ txDebt'[p] # txDebt[p])
               /\ pc'[p] \in InTransaction
               => rowLock'[req'[p].customer_id] = {p}
            /\ \A c \in CustomerIds :
                  (rowLock[c] = {p} /\ rowLock'[c] # {p})
                  => (pc[p] \in {"insert", "save", "commit"}
                        /\ pc'[p] = "done")]_vars

\* the loan is inserted and the debt written, not yet committed, lock held
C4_Witness ==
    \E p \in Procs :
        /\ pc[p] = "commit" /\ txLoans[p] # {} /\ txDebt[p] # {}
        /\ rowLock[req[p].customer_id] = {p}
        /\ \E q \in Procs : q # p /\ pc[q] = "select_for_update"
                            /\ req[q].customer_id = req[p].customer_id

\* C5: in every committed state current_debt has grown by exactly the
\* principal of the loans create_loan has committed for the customer; a call
\* that ends in an error leaves both tables as they were and its caller gets
\* the error.
C5_NoPartialWrite ==
    /\ [](\A c \in CustomerIds :
            customers[c].current_debt =
                initial.customers[c].current_debt + SumAmount(CreatedLoans(c)))
    /\ [][\A p \in Procs :
            (pc[p] # "done" /\ pc'[p] = "done" /\ outcome'[p].kind = "error")
            => /\ loans' = loans
               /\ customers' = customers
               /\ outcome'[p].status \in {404, 500}
               /\ outcome'[p].loan_id = {}]_vars

\* the debt update failed after the insert had succeeded
C5_Witness ==
    \E p \in Procs :
        /\ Done(p) /\ outcome[p].error = "update customers"
        /\ nextLoanId > initial.nextLoanId
        /\ loans = initial.loans

\* C6: the commit of an approved call for principal P adds P to the
\* customer's current_debt and adds exactly one loan: active, no EMI paid,
\* with the requested principal and tenure and the decision's corrected rate
\* and EMI; the outcome names that loan, approved, with the EMI.
C6_ApprovedEffect ==
    [][\A p \in Procs :
         (pc[p] = "commit" /\ pc'[p] = "done" /\ outcome[p].loan_approved)
         => LET c == req[p].customer_id
            IN  /\ customers'[c].current_debt =
                      customers[c].current_debt + req[p].loan_amount
                /\ \E l \in loans' :
                      /\ l \notin loans
                      /\ loans' = loans \cup {l}
                      /\ l.customer_id = c
                      /\ l.is_active
                      /\ l.emis_paid_on_time = 0
                      /\ l.loan_amount = req[p].loan_amount
                      /\ l.tenure = req[p].tenure
                      /\ l.interest_rate =
                            eligibility[p].corrected_interest_rate
                      /\ l.monthly_installment =
                            eligibility[p].monthly_installment
                      /\ l.monthly_installment =
                            calculate_emi(l.loan_amount, l.interest_rate,
                                          l.tenure)
                      /\ outcome'[p].loan_id = {l.id}
                      /\ outcome'[p].loan_approved
                      /\ outcome'[p].status = 201
                      /\ outcome'[p].monthly_installment =
                            {l.monthly_installment}]_vars

\* an approved call whose rate was corrected has committed its loan
C6_Witness ==
    \E p \in Procs :
        /\ Approved(p)
        /\ eligibility[p].corrected_interest_rate # req[p].interest_rate
        /\ \E l \in loans :
              /\ outcome[p].loan_id = {l.id}
              /\ customers[req[p].customer_id].current_debt =
                    initial.customers[req[p].customer_id].current_debt
                      + l.loan_amount

\* C7: a call whose decision is a rejection ends with a normal response
\* (status 200) with no loan id, loan_approved false and no instalment, and
\* the step that ends it changes no loan and no customer.
C7_RejectionFrame ==
    /\ [](\A p \in Procs :
            (Done(p) /\ eligibility[p] # NoEligibility
               /\ ~eligibility[p].approval)
            => /\ outcome[p].kind = "response"
               /\ outcome[p].status = 200
               /\ outcome[p].loan_id = {}
               /\ ~outcome[p].loan_approved
               /\ outcome[p].monthly_installment = {})
    /\ [][\A p \in Procs :
            (pc[p] \in InTransaction /\ pc'[p] # pc[p]
               /\ eligibility'[p] # NoEligibility /\ ~eligibility'[p].approval)
            => /\ loans' = loans
               /\ customers' = customers
               /\ nextLoanId' = nextLoanId
               /\ txLoans'[p] = {} /\ txDebt'[p] = {}]_vars

C7_Witness ==
    \E p \in Procs :
        /\ Rejected(p)
        /\ ~eligibility[p].approval
        /\ loans = initial.loans /\ customers = initial.customers

\* C8 (as claimed): the message of a rejection names the low score when the
\* score is what rejects, names the affordability breach when the instalments
\* reject (also when only the new EMI takes the total over the ceiling), and
\* holds both reasons when both apply.
C8_ReasonsNamed ==
    \A p \in Procs :
        (pc[p] = "commit" /\ ~outcome[p].loan_approved)
        => LET cust == customer[p]
               credit_score == CreditScoreCalculate(cust, loans)
               current == SumInstallment(ActiveLoansOf(cust, loans))
               low == /\ req[p].loan_amount <= 100 * cust.approved_limit
                      /\ credit_score <= 10
               breach ==
                   \/ current >= EmiLimit(cust)
                   \/ /\ req[p].loan_amount <= 100 * cust.approved_limit
                      /\ SlabApproval(credit_score)
                      /\ current + eligibility[p].monthly_installment
                            > EmiLimit(cust)
           IN  /\ low => HasReason(outcome[p].message,
                                   LowScoreReason(credit_score).text)
               /\ breach => HasReason(outcome[p].message, EmiReason.text)

\* C9: a call for a customer id that does not exist ends with
\* CustomerNotFoundError (status 404); it evaluates nothing and writes
\* nothing.
C9_CustomerNotFound ==
    /\ [](\A p \in Procs :
            (Done(p) /\ req[p].customer_id \notin DOMAIN customers)
            => /\ outcome[p].kind = "error"
               /\ outcome[p].status = 404
               /\ outcome[p].error = "customer_not_found"
               /\ eligibility[p] = NoEligibility
               /\ customer[p] = NoCustomer)
    /\ [][\A p \in Procs :
            (pc[p] # pc'[p] /\ pc[p] # "idle"
               /\ req[p].customer_id \notin DOMAIN customers)
            => /\ pc'[p] \in {"done", "idle"}
               /\ loans' = loans
               /\ customers' = customers
               /\ nextLoanId' = nextLoanId
               /\ rowLock' = rowLock
               /\ txLoans' = txLoans /\ txDebt' = txDebt]_vars

C9_Witness ==
    \E p \in Procs :
        /\ Done(p)
        /\ req[p].customer_id \in MissingIds
        /\ outcome[p].status = 404

\* C10: a call is never kept waiting by a call for another customer: its
\* select_for_update can proceed whenever no other call for the same
\* customer is inside its transaction, and its insert, its debt update and
\* its commit can proceed whatever the other calls do.
C10_NoCrossBlocking ==
    \A p \in Procs :
        /\ (/\ pc[p] = "select_for_update"
            /\ req[p].customer_id \in DOMAIN customers
            /\ \A q \in Procs \ {p} :
                  pc[q] \in InTransaction
                  => req[q].customer_id # req[p].customer_id)
           => ENABLED SelectForUpdate(p)
        /\ pc[p] = "insert" => ENABLED Insert(p)
        /\ pc[p] = "save" => ENABLED Save(p)
        /\ pc[p] = "commit" => ENABLED Commit(p)

\* two calls for different customers are inside their transactions at once
C10_Witness ==
    \E p, q \in Procs :
        /\ pc[p] \in InTransaction /\ pc[q] \in InTransaction
        /\ req[p].customer_id # req[q].customer_id
        /\ rowLock[req[p].customer_id] = {p}
        /\ rowLock[req[q].customer_id] = {q}

-----------------------------------------------------------------------------
(* The decision and the score, under PreviewSpec.                          *)

\* the preview of p has returned a decision
Decided(p) == Done(p) /\ eligibility[p] # NoEligibility

\* sum of monthly_installment over the active loans of p's customer
CurrentEmiTotal(p) == SumInstallment(ActiveLoansOf(customer[p], loans))

\* the EMI of p's request at the given rate
RequestEmi(p, rate) == calculate_emi(req[p].loan_amount, rate, req[p].tenure)

C13_OverLimitRejected ==
    \A p \in Procs :
        (Decided(p) /\ req[p].loan_amount > 100 * customer[p].approved_limit)
        => /\ ~eligibility[p].approval
           /\ eligibility[p].interest_rate = req[p].interest_rate
           /\ eligibility[p].corrected_interest_rate = req[p].interest_rate
           /\ eligibility[p].monthly_installment =
                 RequestEmi(p, req[p].interest_rate)

\* over the limit with a score above 50 and instalments running, and over
\* the limit at a rate the slab of the score would have corrected
C13_Witness ==
    \E p, q \in Procs :
        /\ Decided(p) /\ Decided(q)
        /\ req[p].loan_amount > 100 * customer[p].approved_limit
        /\ req[q].loan_amount > 100 * customer[q].approved_limit
        /\ score[p] > 50 /\ CurrentEmiTotal(p) > 0
        /\ customer[p].approved_limit > 0
        /\ score[q] <= 50 /\ score[q] > 30 /\ req[q].interest_rate < 1200
        /\ ~eligibility[p].approval /\ ~eligibility[q].approval

Affordable(p, rate) ==
    /\ CurrentEmiTotal(p) < EmiLimit(customer[p])
    /\ CurrentEmiTotal(p) + RequestEmi(p, rate) <= EmiLimit(customer[p])

\* C15 (as claimed): with a score above 50 and affordability not breached
\* the decision is an approval at the requested rate, whatever the rate.
C15_HighScoreAlwaysApproved ==
    \A p \in Procs :
        (Decided(p) /\ score[p] > 50 /\ Affordable(p, req[p].interest_rate))
        => /\ eligibility[p].approval
           /\ eligibility[p].corrected_interest_rate = req[p].interest_rate

\* C15 (amended): with a score above 50, a requested amount within
\* approved_limit and affordability not breached, the decision is an
\* approval at the requested rate, whatever the rate; the corrected rate is
\* the requested one also when the request is rejected.
C15_HighScoreApproved ==
    \A p \in Procs :
        (Decided(p) /\ score[p] > 50)
        => /\ eligibility[p].corrected_interest_rate = req[p].interest_rate
           /\ eligibility[p].monthly_installment =
                 RequestEmi(p, req[p].interest_rate)
           /\ (/\ req[p].loan_amount <= 100 * customer[p].approved_limit
               /\ Affordable(p, req[p].interest_rate))
              => eligibility[p].approval

\* a score just above 50, a rate below the slab rates, approved uncorrected
\* with the instalments ending exactly at half the salary, beside a request
\* at rate 0
C15_Witness ==
    \E p, q \in Procs :
        /\ Decided(p) /\ Decided(q)
        /\ score[p] > 50 /\ score[q] > 50
        /\ req[p].interest_rate = 1200 /\ req[q].interest_rate = 0
        /\ CurrentEmiTotal(p) + eligibility[p].monthly_installment
              = EmiLimit(customer[p])
        /\ eligibility[p].approval /\ eligibility[q].approval
        /\ eligibility[p].corrected_interest_rate = req[p].interest_rate

\* check() reaches the slab logic for p's request: neither step 2 nor step 3
\* rejected it
ReachedSlabs(p) ==
    /\ req[p].loan_amount <= 100 * customer[p].approved_limit
    /\ CurrentEmiTotal(p) < EmiLimit(customer[p])

\* C16 (as claimed): with 30 < score <= 50 the corrected rate is 12.00 for a
\* requested rate of at most 12, and the requested rate above that, in
\* every customer state and for every requested amount.
C16_Slab12Everywhere ==
    \A p \in Procs :
        (Decided(p) /\ 30 < score[p] /\ score[p] <= 50)
        => eligibility[p].corrected_interest_rate =
              IF req[p].interest_rate <= 1200 THEN 1200
              ELSE req[p].interest_rate

\* C16 (amended): with 30 < score <= 50 and a request that neither exceeds
\* approved_limit nor meets instalments already at half the salary, the
\* corrected rate is 12.00 for a requested rate of at most 12 and the
\* requested rate above that, and the EMI is the one at the corrected rate;
\* a request rejected by one of those two checks keeps its requested rate.
C16_Slab12 ==
    \A p \in Procs :
        (Decided(p) /\ 30 < score[p] /\ score[p] <= 50)
        => /\ ReachedSlabs(p)
              => /\ eligibility[p].corrected_interest_rate =
                       IF req[p].interest_rate <= 1200 THEN 1200
                       ELSE req[p].interest_rate
                 /\ eligibility[p].monthly_installment =
                       RequestEmi(p, eligibility[p].corrected_interest_rate)
           /\ ~ReachedSlabs(p)
              => eligibility[p].corrected_interest_rate
                    = req[p].interest_rate

\* a score of exactly 50: a request below 12 corrected to 12.00 and approved,
\* beside a request above 12 left as it is
C16_Witness ==
    \E p, q \in Procs :
        /\ Decided(p) /\ Decided(q)
        /\ score[p] = 50 /\ score[q] = 50
        /\ ReachedSlabs(p) /\ ReachedSlabs(q)
        /\ req[p].interest_rate < 1200
        /\ eligibility[p].corrected_interest_rate = 1200
        /\ eligibility[p].approval
        /\ req[q].interest_rate > 1200
        /\ eligibility[q].corrected_interest_rate = req[q].interest_rate

\* C17 (as claimed): with 10 < score <= 30 the corrected rate is 16.00 for a
\* requested rate of at most 16, and the requested rate above that, in
\* every customer state and for every requested amount.
C17_Slab16Everywhere ==
    \A p \in Procs :
        (Decided(p) /\ 10 < score[p] /\ score[p] <= 30)
        => eligibility[p].corrected_interest_rate =
              IF req[p].interest_rate <= 1600 THEN 1600
              ELSE req[p].interest_rate

\* C17 (amended): with 10 < score <= 30 and a request that neither exceeds
\* approved_limit nor meets instalments already at half the salary, the
\* corrected rate is 16.00 for a requested rate of at most 16 and the
\* requested rate above that, and the EMI is the one at the corrected rate;
\* a request rejected by one of those two checks keeps its requested rate.
C17_Slab16 ==
    \A p \in Procs :
        (Decided(p) /\ 10 < score[p] /\ score[p] <= 30)
        => /\ ReachedSlabs(p)
              => /\ eligibility[p].corrected_interest_rate =
                       IF req[p].interest_rate <= 1600 THEN 1600
                       ELSE req[p].interest_rate
                 /\ eligibility[p].monthly_installment =
                       RequestEmi(p, eligibility[p].corrected_interest_rate)
           /\ ~ReachedSlabs(p)
              => eligibility[p].corrected_interest_rate
                    = req[p].interest_rate

\* a score of exactly 30: a request at 12 corrected to 16.00 and approved,
\* beside a request above 16 left as it is
C17_Witness ==
    \E p, q \in Procs :
        /\ Decided(p) /\ Decided(q)
        /\ score[p] = 30 /\ score[q] = 30
        /\ ReachedSlabs(p) /\ ReachedSlabs(q)
        /\ req[p].interest_rate = 1200
        /\ eligibility[p].corrected_interest_rate = 1600
        /\ eligibility[p].approval
        /\ req[q].interest_rate > 1600
        /\ eligibility[q].corrected_interest_rate = req[q].interest_rate

\* C18: with a score of at most 10 the decision is a rejection and the rate
\* is not corrected (the EMI is the one at the requested rate), for every
\* requested amount, rate and tenure.
C18_LowScoreRejected ==
    \A p \in Procs :
        (Decided(p) /\ score[p] <= 10)
        => /\ ~eligibility[p].approval
           /\ eligibility[p].corrected_interest_rate = req[p].interest_rate
           /\ eligibility[p].monthly_installment =
                 RequestEmi(p, req[p].interest_rate)

\* a score of exactly 10 with no instalment running: two requests within the
\* limit, one below the slab rates, are rejected uncorrected
C18_Witness ==
    \E p, q \in Procs :
        /\ Decided(p) /\ Decided(q)
        /\ score[p] = 10 /\ score[q] = 10
        /\ ReachedSlabs(p) /\ ReachedSlabs(q)
        /\ Affordable(p, 1600) /\ Affordable(q, 1600)
        /\ req[p].interest_rate < 1200 /\ req[q].interest_rate > 1600
        /\ req[p].tenure # req[q].tenure
        /\ ~eligibility[p].approval /\ ~eligibility[q].approval
        /\ eligibility[p].corrected_interest_rate = req[p].interest_rate

\* the lowest rate the slab of a score lends at
SlabFloor(credit_score) ==
    IF credit_score > 50 THEN 0 ELSE IF credit_score > 30 THEN 1200 ELSE 1600

\* C19: when the slab logic is reached with a score above 10, the decision
\* is a rejection exactly when the instalments running plus the EMI at the
\* corrected rate exceed half the monthly salary (a total equal to it is
\* approved), and a decision rejected this way still carries the corrected
\* rate and the EMI at that rate; on every path the EMI returned is the EMI
\* of the requested amount and tenure at the corrected rate returned.
C19_FlipOnBreach ==
    \A p \in Procs :
        Decided(p)
        => /\ eligibility[p].monthly_installment =
                 RequestEmi(p, eligibility[p].corrected_interest_rate)
           /\ (ReachedSlabs(p) /\ score[p] > 10)
              => /\ eligibility[p].corrected_interest_rate =
                       IF req[p].interest_rate > SlabFloor(score[p])
                       THEN req[p].interest_rate ELSE SlabFloor(score[p])
                 /\ eligibility[p].approval
                       = ~(CurrentEmiTotal(p)
                             + RequestEmi(p,
                                 eligibility[p].corrected_interest_rate)
                             > EmiLimit(customer[p]))

\* a request approved with the total exactly at half the salary, beside a
\* request flipped to a rejection that carries the corrected rate and its EMI
C19_Witness ==
    \E p, q \in Procs :
        /\ Decided(p) /\ Decided(q)
        /\ ReachedSlabs(p) /\ ReachedSlabs(q)
        /\ score[p] > 10 /\ score[q] > 10
        /\ eligibility[p].approval
        /\ CurrentEmiTotal(p) + eligibility[p].monthly_installment
              = EmiLimit(customer[p])
        /\ ~eligibility[q].approval
        /\ eligibility[q].corrected_interest_rate # req[q].interest_rate
        /\ eligibility[q].monthly_installment # 
              RequestEmi(q, req[q].interest_rate)
        /\ CurrentEmiTotal(q) + eligibility[q].monthly_installment
              > EmiLimit(customer[q])

\* C20: the score of a customer without any loan is exactly 50, whatever the
\* customer's monthly_salary, approved_limit and current_debt.
C20_NoHistoryScore ==
    \A p \in Procs :
        (Decided(p) /\ \A l \in loans : l.customer_id # customer[p].id)
        => score[p] = 50

\* a customer without loans, with salary 0, limit 0 and debt booked, beside
\* a customer with the same salary, limit and debt and a different score
C20_Witness ==
    \E p, q \in Procs :
        /\ Decided(p) /\ Decided(q)
        /\ \A l \in loans : l.customer_id # customer[p].id
        /\ customer[p].monthly_salary = 0
        /\ customer[p].approved_limit = 0
        /\ customer[p].current_debt > 0
        /\ score[p] = 50
        /\ \E l \in loans : l.customer_id = customer[q].id
        /\ score[q] # 50

\* the loans of p's customer, and the principal of the active ones
HistoryOf(p) == {l \in loans : l.customer_id = customer[p].id}

ActivePrincipal(p) == SumAmount({l \in HistoryOf(p) : l.is_active})

\* C21: the score of a customer whose active loans add up to more than
\* approved_limit is exactly 0, whatever the payment history, the number of
\* loans, this year's loans and the total volume; a sum equal to
\* approved_limit does not give 0, and no customer with loans whose active
\* principal is within the limit scores 0.
C21_OverExtendedZero ==
    \A p \in Procs :
        (Decided(p) /\ HistoryOf(p) # {})
        => (score[p] = 0
              <=> ActivePrincipal(p) > 100 * customer[p].approved_limit)

\* a customer over the limit who paid every instalment scores 0, beside a
\* customer without loans
C21_Witness ==
    \E p, q \in Procs :
        /\ Decided(p) /\ Decided(q)
        /\ HistoryOf(p) # {} /\ HistoryOf(q) = {}
        /\ ActivePrincipal(p) > 100 * customer[p].approved_limit
        /\ SumOnTime(HistoryOf(p)) = SumTenure(HistoryOf(p))
        /\ Cardinality(HistoryOf(p)) = 2
        /\ score[p] = 0 /\ score[q] = 50

-----------------------------------------------------------------------------
(* The score as a weighted sum.                                            *)

Scored(p) == Done(p) /\ score[p] # NoScore

Abs(x) == IF x < 0 THEN -x ELSE x

\* the loans of p's customer started in the current year
ThisYearCount(p) ==
    Cardinality({l \in HistoryOf(p) : Year(l.start_date) = Year(today)})

\* the step functions of the four factors, in tenths
CountFactor(n) == IF n <= 2 THEN 10 ELSE IF n <= 5 THEN 7 ELSE IF n <= 10 THEN 4 ELSE 1

ActivityFactor(n) == IF n = 0 THEN 10 ELSE IF n <= 2 THEN 7 ELSE IF n <= 4 THEN 4 ELSE 1

VolumeFactor(volume, approved_limit) ==
    IF approved_limit = 0 THEN 0
    ELSE IF 4 * volume <= 100 * approved_limit THEN 10
    ELSE IF 2 * volume <= 100 * approved_limit THEN 7
    ELSE IF 4 * volume <= 300 * approved_limit THEN 4
    ELSE IF volume <= 100 * approved_limit THEN 2
    ELSE 0

\* the weighted sum of p's customer as the fraction WeightedNum / WeightedDen
StepTenths(p) ==
    20 * CountFactor(Cardinality(HistoryOf(p)))
    + 20 * ActivityFactor(ThisYearCount(p))
    + 30 * VolumeFactor(SumAmount(HistoryOf(p)), customer[p].approved_limit)

WeightedNum(p) ==
    IF SumTenure(HistoryOf(p)) > 0
    THEN 300 * SumOnTime(HistoryOf(p)) + StepTenths(p) * SumTenure(HistoryOf(p))
    ELSE StepTenths(p)

WeightedDen(p) ==
    IF SumTenure(HistoryOf(p)) > 0 THEN 10 * SumTenure(HistoryOf(p)) ELSE 10

\* p's customer has loans and is not over-extended
WithinLimit(p) ==
    /\ Scored(p)
    /\ HistoryOf(p) # {}
    /\ ActivePrincipal(p) <= 100 * customer[p].approved_limit

\* the weighted sum of p's customer is k + 0.5 for the integer k
TieAt(p, k) == 2 * WeightedNum(p) = (2 * k + 1) * WeightedDen(p)

\* C22: for a customer with loans whose active principal is within
\* approved_limit, the score is the weighted sum 30 * on-time ratio
\* + 20 * f(number of loans) + 20 * g(loans started this year)
\* + 30 * h(total principal / approved_limit), rounded to a nearest integer
\* and clamped to 0..100, with the brackets of f, g and h closed above.
C22_WeightedSum ==
    \A p \in Procs :
        WithinLimit(p)
        => \E r \in 0..200 :
              /\ 2 * Abs(r * WeightedDen(p) - WeightedNum(p)) <= WeightedDen(p)
              /\ score[p] = IF r > 100 THEN 100 ELSE r

\* five loans, four of them started this year, principal at exactly 0.75 of
\* the limit, 2 of 20 instalments on time: 3 + 14 + 8 + 12
C22_Witness ==
    \E p \in Procs :
        /\ WithinLimit(p)
        /\ Cardinality(HistoryOf(p)) = 5
        /\ ThisYearCount(p) = 4
        /\ 4 * SumAmount(HistoryOf(p)) = 300 * customer[p].approved_limit
        /\ SumOnTime(HistoryOf(p)) = 2
        /\ score[p] = 37

\* C23: a weighted sum of exactly k + 0.5 gives the score k + 1 (at most
\* 100), for even and for odd k.
C23_TiesRoundUp ==
    \A p \in Procs : \A k \in 0..200 :
        (WithinLimit(p) /\ TieAt(p, k))
        => score[p] = IF k + 1 > 100 THEN 100 ELSE k + 1

\* C24: every score is an integer from 0 to 100, also when more instalments
\* are recorded as paid on time than the loans have.
C24_ScoreRange == \A p \in Procs : Scored(p) => score[p] \in 0..100

\* five instalments on time on one loan of tenure four: the sum is 107.5
C24_Witness ==
    \E p \in Procs :
        /\ WithinLimit(p)
        /\ SumOnTime(HistoryOf(p)) > SumTenure(HistoryOf(p))
        /\ WeightedNum(p) > 100 * WeightedDen(p)
        /\ score[p] = 100

-----------------------------------------------------------------------------
(* Invalid input.                                                          *)

\* p has called calculate_emi directly
EmiCalled(p) == Done(p) /\ outcome[p].kind = "calculate_emi"

\* p's request came through one of the two views
ViewCalled(p) == pc[p] # "idle" /\ outcome[p].kind \in {"response", "error"}

\* C25: calculate_emi raises ValueError and returns no value exactly when
\* principal <= 0, annual_rate < 0 or tenure_months < 1, and returns an
\* instalment otherwise; no request to create-loan or check-eligibility ends
\* in that ValueError, since the serializers let only principal >= 0.01,
\* rate >= 0 and tenure >= 1 through.
C25_InvalidInput ==
    \A p \in Procs :
        /\ EmiCalled(p)
           => IF \/ req[p].loan_amount <= 0
                 \/ req[p].interest_rate < 0
                 \/ req[p].tenure < 1
              THEN /\ outcome[p].error = "ValueError"
                   /\ outcome[p].monthly_installment = {}
              ELSE /\ outcome[p].error = ""
                   /\ \E emi \in 1..(2 * req[p].loan_amount) :
                         outcome[p].monthly_installment = {emi}
        /\ ViewCalled(p) => outcome[p].error # "ValueError"

\* calculate_emi has raised on a tenure of 0, and a view has answered a
\* request with that tenure with 400
C25_Witness ==
    \E p, q \in Procs :
        /\ EmiCalled(p) /\ req[p].tenure = 0 /\ req[p].loan_amount > 0
        /\ req[p].interest_rate >= 0
        /\ outcome[p].error = "ValueError"
        /\ ViewCalled(q) /\ Done(q)
        /\ req[q].tenure = 0 /\ req[q].loan_amount > 0
        /\ req[q].interest_rate >= 0
        /\ outcome[q].status = 400

-----------------------------------------------------------------------------
(* Registration.                                                           *)

\* limit is amount rounded to the nearest 100,000, an exact half upwards
NearestLakhUp(amount, limit) ==
    /\ limit % 100000 = 0
    /\ amount - 50000 < limit
    /\ limit <= amount + 50000

\* p has called round_to_nearest_lakh directly
LakhCalled(p) == Done(p) /\ outcome[p].kind = "round_to_nearest_lakh"

\* C26: a customer is created with approved_limit = 36 * monthly_income
\* rounded to the nearest 100,000 (an exact half upwards) and current_debt 0;
\* round_to_nearest_lakh gives 0 for an amount that is not positive; and no
\* step of create-loan or check-eligibility changes the approved_limit or
\* the monthly_salary of a customer.
C26_LimitAtRegistration ==
    /\ [](\A p \in Procs :
            LakhCalled(p)
            => IF req[p].loan_amount <= 0
               THEN customer[p].approved_limit = 0
               ELSE NearestLakhUp(req[p].loan_amount,
                                  customer[p].approved_limit))
    /\ [][\A c \in DOMAIN customers' :
            IF c \in DOMAIN customers
            THEN /\ customers'[c].approved_limit = customers[c].approved_limit
                 /\ customers'[c].monthly_salary = customers[c].monthly_salary
            ELSE /\ NearestLakhUp(36 * customers'[c].monthly_salary,
                                  customers'[c].approved_limit)
                 /\ customers'[c].current_debt = 0]_vars

\* a customer registered with income 12500 (36 times it is 4.5 lakh) has the
\* limit 5 lakh and still has it after an approved loan has raised the debt
C26_Witness ==
    \E p \in Procs :
        /\ Approved(p)
        /\ customers[customer[p].id].monthly_salary = 12500
        /\ customers[customer[p].id].approved_limit = 500000
        /\ customers[customer[p].id].current_debt = req[p].loan_amount
        /\ \E l \in loans : l.customer_id = customer[p].id

-----------------------------------------------------------------------------
(* The API-key gate.                                                       *)

\* p's request went through APIKeyMiddleware
Gated(p) == pc[p] # "idle" /\ "path" \in DOMAIN req[p]

HasPrefix(path, prefix) ==
    Len(path) >= Len(prefix)
    /\ \A i \in 1..Len(prefix) : path[i] = prefix[i]

\* the path starts with /health or with /admin/
ExemptPath(path) ==
    \/ HasPrefix(path, <<"/", "h", "e", "a", "l", "t", "h">>)
    \/ HasPrefix(path, <<"/", "a", "d", "m", "i", "n", "/">>)

\* the header carries one of the configured keys
ConfiguredKey(header) ==
    \E k \in header : \E i \in 1..Len(initial.API_KEYS) :
        initial.API_KEYS[i] = k

\* the view behind the middleware got p's request
ReachedView(p) ==
    \/ pc[p] \in InTransaction \cup {"select_for_update"}
    \/ Done(p) /\ outcome[p].status \notin {401, 403}

-----------------------------------------------------------------------------
(* create_loan over time.                                                  *)

\* the instalments of customer c's active loans, at the start and now
StartEmiTotal(c) ==
    SumInstallment({l \in initial.loans : l.customer_id = c /\ l.is_active})

CommittedEmiTotal(c) ==
    SumInstallment({l \in loans : l.customer_id = c /\ l.is_active})

\* half the monthly salary, in hundredths
Ceiling(c) == 50 * customers[c].monthly_salary

\* C28: a customer whose active instalments start at no more than half the
\* monthly salary never has committed active instalments above it, however
\* the create_loan calls interleave; a customer who starts at or above the
\* ceiling never gets a loan approved.
C28_Affordability ==
    \A c \in CustomerIds :
        /\ StartEmiTotal(c) <= Ceiling(c) => CommittedEmiTotal(c) <= Ceiling(c)
        /\ StartEmiTotal(c) >= Ceiling(c)
           => /\ CreatedLoans(c) = {}
              /\ \A p \in Procs :
                    req[p].customer_id = c
                    => /\ pc[p] \notin {"insert", "save"}
                       /\ txLoans[p] = {}
                       /\ ~outcome[p].loan_approved

\* a customer below the ceiling has one loan more, and a second call, whose
\* instalment would take the sum over the ceiling, was rejected
C28_Witness ==
    \E p, q \in Procs :
        /\ p # q /\ Approved(p) /\ Rejected(q)
        /\ req[p].customer_id = req[q].customer_id
        /\ StartEmiTotal(req[p].customer_id) < Ceiling(req[p].customer_id)
        /\ CommittedEmiTotal(req[p].customer_id)
              > StartEmiTotal(req[p].customer_id)
        /\ CommittedEmiTotal(req[p].customer_id)
              + eligibility[q].monthly_installment
              > Ceiling(req[p].customer_id)

\* the decision of check-eligibility on the committed tables for p's request
Preview(p) ==
    EligibilityCheck(customers[req[p].customer_id], loans, req[p].loan_amount,
                     req[p].interest_rate, req[p].tenure)

\* C29: create_loan decides as check-eligibility would on the committed
\* customer and loans for the same amount, rate and tenure: it goes on to
\* insert exactly when that decision approves, a call that ends with a
\* response is approved exactly when it does, and the loan it commits
\* carries that decision's corrected rate and instalment.
C29_AgreesWithPreview ==
    [][\A p \in Procs :
          /\ (pc[p] = "check" /\ pc'[p] # "check")
             => /\ pc'[p] = "insert" <=> Preview(p).approval
                /\ pc'[p] = "reject" <=> ~Preview(p).approval
          /\ (pc[p] = "commit" /\ pc'[p] = "done")
             => /\ outcome'[p].loan_approved <=> Preview(p).approval
                /\ Preview(p).approval
                   => \E l \in loans' \ loans :
                         /\ loans' = loans \cup {l}
                         /\ l.customer_id = req[p].customer_id
                         /\ l.interest_rate =
                               Preview(p).corrected_interest_rate
                         /\ l.monthly_installment =
                               Preview(p).monthly_installment
                /\ ~Preview(p).approval => loans' = loans]_vars

\* a committed loan at a corrected rate, with the instalment of that rate
C29_Witness ==
    \E p \in Procs : \E l \in loans :
        /\ Approved(p)
        /\ outcome[p].loan_id = {l.id}
        /\ l.interest_rate > req[p].interest_rate
        /\ l.monthly_installment >
              calculate_emi(req[p].loan_amount, req[p].interest_rate,
                            req[p].tenure)

-----------------------------------------------------------------------------
(* Locks and progress.                                                     *)

\* p is inside create_loan
Originating(p) == pc[p] \in InTransaction \cup {"select_for_update"}

\* p waits for the row lock another transaction holds
Blocked(p) ==
    /\ pc[p] = "select_for_update"
    /\ req[p].customer_id \in DOMAIN customers
    /\ rowLock[req[p].customer_id] \ {p} # {}

\* p holds the row lock of the customer of its request
HoldsLock(p) ==
    \E c \in DOMAIN rowLock : c = req[p].customer_id /\ rowLock[c] = {p}

\* the next statement of p can be executed
CanStep(p) ==
    /\ pc[p] = "select_for_update"
          => ENABLED (SelectForUpdate(p) \/ SelectForUpdateMissing(p))
    /\ pc[p] = "check" => ENABLED Check(p)
    /\ pc[p] = "reject" => ENABLED Reject(p)
    /\ pc[p] = "insert" => ENABLED Insert(p)
    /\ pc[p] = "save" => ENABLED Save(p)
    /\ pc[p] = "commit" => ENABLED Commit(p)

\* C30: a call that has left create_loan, on whichever path, holds no row
\* lock; while calls are in progress one of them can take its next step; with
\* the workers scheduled fairly every call ends with a response or an error,
\* and a call waiting for a customer's row lock gets it.
C30_ReleaseAndProgress ==
    /\ [](\A p \in Procs :
            ~Originating(p)
            => \A c \in DOMAIN rowLock : p \notin rowLock[c])
    /\ []((\E p \in Procs : Originating(p))
            => \E p \in Procs : Originating(p) /\ CanStep(p))
    /\ \A p \in Procs :
          Originating(p)
          ~> (Done(p) /\ outcome[p].kind \in {"response", "error"})
    /\ \A p \in Procs :
          Blocked(p) ~> HoldsLock(p)

\* the holder's update failed, and the call that asked for the same
\* customer's row holds the lock now
C30_Witness ==
    \E p, q \in Procs :
        /\ Done(q) /\ outcome[q].error = "update customers"
        /\ req[p].customer_id = req[q].customer_id
        /\ pc[p] = "check"
        /\ HoldsLock(p)

====
